---- MODULE Spec2Model ----
(***************************************************************************)
(* A model of the Lox front-to-back pipeline of this repository:           *)
(*   scanner.rs     Scanner      (source text -> tokens, has_error)        *)
(*   token.rs       Token, TokenType, LiteralValue                         *)
(*   parser.rs      Parser       (tokens -> statements | ParseError)       *)
(*   intrepreter.rs Interpreter  (statements -> effects | RuntimeError)    *)
(*   expr_eval.rs   Interpreter  (expression -> value | RuntimeError)      *)
(*   main.rs        Lox          (run_file and the prompt: scan, parse ..) *)
(*                                                                         *)
(* A source text is a sequence of characters; a character is a string.    *)
(* Strings of the program (lexemes, String literals) are sequences of      *)
(* characters too, so slicing and concatenation are computed, not assumed. *)
(***************************************************************************)
EXTENDS Integers, Sequences, FiniteSets, TLC

VARIABLES
    mode,        \* "run_file": Lox::run_file on a path
                 \* "parse_and_print": the helper of the tests of parser.rs on a source
                 \* "interpret": Interpreter::interpret is called on statements
                 \* "evaluate": Interpreter::interpret of expr_eval.rs on an expression
                 \* "repl": Lox::run_prompt reads and runs lines
                 \* "parse": Parser::parse on a token sequence, statement by statement
    phase,       \* position of the run: see the actions
    scanner,     \* the Scanner struct (scanner.rs 30-37) plus its diagnostics
    tokens,      \* the Vec<Token> returned by scan_tokens
    parsed,      \* the Result returned by the parser, and the parser's cursor
    statements,  \* the Vec<Stmt> given to Interpreter::interpret
    ip,          \* index of the next statement of the for loop of interpret
    environment, \* Environment.values of the Interpreter
    output,      \* the lines written by println!
    result,      \* the Result of interpret: "none" while running, "ok" or an error
    lox          \* the Lox struct of main.rs (had_error) and the state of its prompt

vars ==
    <<mode, phase, scanner, tokens, parsed, statements, ip, environment, output, result, lox>>

----------------------------------------------------------------------------
(* Bounds of the model *)

\* longest source text drawn from ScanAlphabet
MaxLen == 3

\* most tokens before the final Eof of a token sequence given to the parser
MaxTokens == 3

\* largest digit used as a number literal in the operator chains
MaxDigit == 2

\* longest statement sequence given to interpret
MaxStmts == 3

\* most lines read by one session of the prompt
MaxLines == 2

----------------------------------------------------------------------------
(* Characters *)

Min(a, b) == IF a < b THEN a ELSE b

Max(a, b) == IF a > b THEN a ELSE b

None == <<>>

Some(x) == <<x>>

DigitChars == <<"0", "1", "2", "3", "4", "5", "6", "7", "8", "9">>

\* char::is_ascii_digit
is_ascii_digit(c) == \E i \in 1..10 : DigitChars[i] = c

DigitValue(c) == (CHOOSE i \in 1..10 : DigitChars[i] = c) - 1

AsciiLetters ==
    {"a", "b", "c", "d", "e", "f", "g", "h", "i", "j", "k", "l", "m",
     "n", "o", "p", "q", "r", "s", "t", "u", "v", "w", "x", "y", "z",
     "A", "B", "C", "D", "E", "F", "G", "H", "I", "J", "K", "L", "M",
     "N", "O", "P", "Q", "R", "S", "T", "U", "V", "W", "X", "Y", "Z"}

\* char::is_ascii_alphabetic
is_ascii_alphabetic(c) == c \in AsciiLetters

\* A character outside ASCII: U+00E9, two bytes in UTF-8.
NonAscii == "é"

\* char::len_utf8 for the characters of the model
len_utf8(c) == IF c = NonAscii THEN 2 ELSE 1

RECURSIVE ByteOffset(_, _)
\* the byte offset at which character number k (0-based) of src begins
ByteOffset(src, k) ==
    IF k = 0 THEN 0 ELSE ByteOffset(src, k - 1) + len_utf8(src[k])

\* String::len: the length of the source in bytes
ByteLen(src) == ByteOffset(src, Len(src))

\* str::is_char_boundary
is_char_boundary(src, b) == \E k \in 0..Len(src) : ByteOffset(src, k) = b

CharIndexOfByte(src, b) == CHOOSE k \in 0..Len(src) : ByteOffset(src, k) = b

\* &source[a..b] panics unless a <= b <= len and both are char boundaries
SliceOk(src, a, b) ==
    /\ a <= b
    /\ b <= ByteLen(src)
    /\ is_char_boundary(src, a)
    /\ is_char_boundary(src, b)

\* &source[a..b], indexed by bytes
ByteSlice(src, a, b) == SubSeq(src, CharIndexOfByte(src, a) + 1, CharIndexOfByte(src, b))

\* self.source.chars().nth(i)
nth(src, i) == IF i >= 0 /\ i < Len(src) THEN Some(src[i + 1]) ELSE None

----------------------------------------------------------------------------
(* Natural numbers of any size.  The significand of an f64 has 53 bits and *)
(* the integers of the model checker 32, so a natural number is held as a  *)
(* sequence of limbs below 2^15, the least significant first and the last  *)
(* one not zero; zero is the empty sequence.  Carries are found without    *)
(* recursion, to keep the evaluation of long numbers shallow.              *)

Base == 2^15

Limb(a, i) == IF i <= Len(a) THEN a[i] ELSE 0

\* the index of the highest limb of a that is not zero, 0 when there is none
TopLimb(a) ==
    IF \A i \in 1..Len(a) : a[i] = 0 THEN 0
    ELSE CHOOSE i \in 1..Len(a) : a[i] # 0 /\ \A j \in (i + 1)..Len(a) : a[j] = 0

\* a without the zero limbs at its end
BigTrim(a) == SubSeq(a, 1, TopLimb(a))

\* the limbs f[1], f[2], .. worked out once, as a sequence
Limbs(f) == f \o <<>>

BigFromNat(n) ==
    BigTrim(<<n % Base, (n \div Base) % Base, n \div (Base * Base)>>)

\* -1, 0 or 1 as a is below, equal to or above b
BigCmp(a, b) ==
    IF Len(a) # Len(b) THEN (IF Len(a) < Len(b) THEN -1 ELSE 1)
    ELSE IF a = b THEN 0
    ELSE IF \E i \in 1..Len(a) : a[i] < b[i] /\ \A j \in (i + 1)..Len(a) : a[j] = b[j]
    THEN -1
    ELSE 1

\* whether the limbs of a and b below limb i carry into it: a limb pair that
\* overflows, and above it only pairs that pass a carry on
CarryInto(a, b, i) ==
    \E j \in 1..(i - 1) :
       /\ Limb(a, j) + Limb(b, j) >= Base
       /\ \A k \in (j + 1)..(i - 1) : Limb(a, k) + Limb(b, k) = Base - 1

\* a + b
BigAdd(a, b) ==
    BigTrim(Limbs([i \in 1..(Max(Len(a), Len(b)) + 1) |->
               (Limb(a, i) + Limb(b, i) + (IF CarryInto(a, b, i) THEN 1 ELSE 0)) % Base]))

\* whether the limbs of a and b below limb i borrow from it
BorrowInto(a, b, i) ==
    \E j \in 1..(i - 1) :
       /\ Limb(a, j) < Limb(b, j)
       /\ \A k \in (j + 1)..(i - 1) : Limb(a, k) = Limb(b, k)

\* a - b, for a >= b
BigSub(a, b) ==
    BigTrim(Limbs([i \in 1..Len(a) |->
               (a[i] - Limb(b, i) - (IF BorrowInto(a, b, i) THEN 1 ELSE 0) + Base) % Base]))

\* a * k, for k below Base: the low halves of the limb products and, one limb
\* up, their high halves
BigMulSmall(a, k) ==
    BigAdd(Limbs([i \in 1..Len(a) |-> (a[i] * k) % Base]),
           <<0>> \o [i \in 1..Len(a) |-> (a[i] * k) \div Base])

\* a * Base^n
BigShiftLimbs(a, n) == IF a = <<>> THEN <<>> ELSE [i \in 1..n |-> 0] \o a

RECURSIVE BigMulRange(_, _, _, _)
\* a times the limbs lo..hi of b, by halves
BigMulRange(a, b, lo, hi) ==
    IF lo = hi THEN BigMulSmall(a, b[lo])
    ELSE BigAdd(BigMulRange(a, b, lo, (lo + hi) \div 2),
                BigShiftLimbs(BigMulRange(a, b, ((lo + hi) \div 2) + 1, hi),
                              ((lo + hi) \div 2) - lo + 1))

\* a * b
BigMul(a, b) == IF a = <<>> \/ b = <<>> THEN <<>> ELSE BigMulRange(a, b, 1, Len(b))

\* a * 2^k
BigShl(a, k) == BigShiftLimbs(BigMulSmall(a, 2^(k % 15)), k \div 15)

\* a / 2^k, rounded down
BigShr(a, k) ==
    IF k \div 15 >= Len(a) THEN <<>>
    ELSE BigTrim(Limbs([i \in 1..(Len(a) - (k \div 15)) |->
                    (a[i + (k \div 15)] \div 2^(k % 15))
                      + (Limb(a, i + (k \div 15) + 1) % 2^(k % 15)) * 2^(15 - (k % 15))]))

\* the number of bits of n, n below Base
SmallBitLen(n) == CHOOSE k \in 0..15 : n < 2^k /\ (k = 0 \/ n >= 2^(k - 1))

\* the number of bits of a
BigBitLen(a) == IF a = <<>> THEN 0 ELSE 15 * (Len(a) - 1) + SmallBitLen(a[Len(a)])

\* bit i of a, bit 0 the lowest
BigBit(a, i) == (Limb(a, (i \div 15) + 1) \div 2^(i % 15)) % 2

\* whether one of the k lowest bits of a is set
BigLowBits(a, k) ==
    \/ \E i \in 1..Min(k \div 15, Len(a)) : a[i] # 0
    \/ Limb(a, (k \div 15) + 1) % 2^(k % 15) # 0

\* the number of zero bits below the lowest set bit of n, 0 < n < Base
SmallTrailingZeros(n) == CHOOSE k \in 0..14 : n % 2^k = 0 /\ n % 2^(k + 1) # 0

\* the number of zero bits below the lowest set bit of a, a not zero
BigTrailingZeros(a) ==
    LET i == CHOOSE i \in 1..Len(a) : a[i] # 0 /\ \A j \in 1..(i - 1) : a[j] = 0
    IN  15 * (i - 1) + SmallTrailingZeros(a[i])

RECURSIVE QuotientLimb(_, _, _, _)
\* the largest d below Base with d * b <= r, for r < b * Base, found bit by bit
QuotientLimb(r, b, bit, d) ==
    IF bit < 0 THEN d
    ELSE IF BigCmp(BigMulSmall(b, d + 2^bit), r) <= 0
    THEN QuotientLimb(r, b, bit - 1, d + 2^bit)
    ELSE QuotientLimb(r, b, bit - 1, d)

RECURSIVE BigDivLimbs(_, _, _, _, _)
\* the limb d of the quotient is known: what is left of r goes on
BigDivSubtract(a, b, i, q, r, d) ==
    BigDivLimbs(a, b, i - 1, <<d>> \o q, BigSub(r, BigMulSmall(b, d)))

\* one step of the long division: r is the remainder with limb i of a
BigDivStep(a, b, i, q, r) ==
    BigDivSubtract(a, b, i, q, r, QuotientLimb(r, b, 14, 0))

\* long division of a by b: the limbs of a above limb i gave the quotient q
\* and the remainder r
BigDivLimbs(a, b, i, q, r) ==
    IF i = 0 THEN <<BigTrim(q), r>>
    ELSE BigDivStep(a, b, i, q, BigTrim(<<a[i]>> \o r))

\* <<a / b rounded down, a mod b>>, for b not zero: the Len(b) - 1 highest
\* limbs of a are below b and start the remainder
BigDivMod(a, b) ==
    IF Len(a) < Len(b) THEN <<<<>>, a>>
    ELSE BigDivLimbs(a, b, Len(a) - Len(b) + 1, <<>>,
                     SubSeq(a, Len(a) - Len(b) + 2, Len(a)))

\* a * a
BigSquare(a) == BigMul(a, a)

RECURSIVE BigPow5(_)
\* 5^k, by squaring
BigPow5(k) ==
    IF k = 0 THEN <<1>>
    ELSE IF k % 2 = 1 THEN BigMulSmall(BigPow5(k - 1), 5)
    ELSE BigSquare(BigPow5(k \div 2))

\* 10^k
BigPow10(k) == BigShl(BigPow5(k), k)

RECURSIVE DigitsValue(_)
\* the integer written by a short run of digits
DigitsValue(ds) ==
    IF ds = <<>> THEN 0
    ELSE 10 * DigitsValue(SubSeq(ds, 1, Len(ds) - 1)) + DigitValue(ds[Len(ds)])

RECURSIVE BigFromDigits(_)
\* the number written by a run of decimal digits, by halves
BigFromDigits(ds) ==
    IF Len(ds) <= 4 THEN BigFromNat(DigitsValue(ds))
    ELSE BigAdd(BigMul(BigFromDigits(SubSeq(ds, 1, Len(ds) \div 2)),
                       BigPow10(Len(ds) - (Len(ds) \div 2))),
                BigFromDigits(SubSeq(ds, (Len(ds) \div 2) + 1, Len(ds))))

----------------------------------------------------------------------------
(* f64 values (IEEE 754 binary64).  A finite number is a sign and the      *)
(* magnitude m * 2^e with m odd, or m zero and e 0 (zero keeps its sign);  *)
(* the significand m has at most 53 bits and the exponent e is at least    *)
(* -1074.  Every operation gives the f64 nearest to the exact result, a    *)
(* tie going to the even significand, as the hardware does.                *)

Finite(neg, m, e) == [k |-> "finite", neg |-> neg, m |-> m, e |-> e]

Zero(neg) == Finite(neg, <<>>, 0)

Infinity(neg) == [k |-> "infinite", neg |-> neg, m |-> <<>>, e |-> 0]

NaN == [k |-> "nan", neg |-> FALSE, m |-> <<>>, e |-> 0]

is_nan(x) == x.k = "nan"

is_infinite(x) == x.k = "infinite"

is_zero(x) == x.k = "finite" /\ x.m = <<>>

\* the f64 of the magnitude r * 2^e, for r of at most 53 bits and e >= -1074:
\* beyond the largest finite number it is an infinity
Canonical(neg, r, e) ==
    IF r = <<>> THEN Zero(neg)
    ELSE IF BigBitLen(r) + e > 1024 THEN Infinity(neg)
    ELSE Finite(neg, BigShr(r, BigTrailingZeros(r)), e + BigTrailingZeros(r))

\* n / 2^sh rounded to the nearest integer, a tie to the even one; sticky
\* says that the exact value lies above n by less than one unit of n
RoundShift(n, sh, sticky) ==
    IF /\ sh > 0
       /\ BigBit(n, sh - 1) = 1
       /\ (sticky \/ BigLowBits(n, sh - 1) \/ BigBit(n, sh) = 1)
    THEN BigAdd(BigShr(n, sh), <<1>>)
    ELSE BigShr(n, sh)

\* the bits to drop from n * 2^e: those beyond the 53 of the significand and
\* those below 2^-1074, the spacing of the subnormal numbers
DroppedBits(n, e) == Max(Max(BigBitLen(n) - 53, (-1074) - e), 0)

\* the f64 nearest to n * 2^e (n of at least 55 bits where sticky is set)
RoundF64(neg, n, e, sticky) ==
    Canonical(neg, RoundShift(n, DroppedBits(n, e), sticky), e + DroppedBits(n, e))

\* the bits to give p so that p / q has at least 55 bits
QuotientShift(p, q) == Max(0, 55 + BigBitLen(q) - BigBitLen(p))

RoundQuotient(neg, qr, e) == RoundF64(neg, qr[1], e, qr[2] # <<>>)

\* the f64 nearest to (p / q) * 2^e, for q odd
RoundRatio(neg, p, q, e) ==
    IF p = <<>> THEN Zero(neg)
    ELSE IF q = <<1>> THEN RoundF64(neg, p, e, FALSE)
    ELSE RoundQuotient(neg, BigDivMod(BigShl(p, QuotientShift(p, q)), q),
                       e - QuotientShift(p, q))

Abs(i) == IF i < 0 THEN -i ELSE i

\* the f64 nearest to the fraction m/d of small natural numbers, with its
\* sign; 1/0 is an infinity and 0/0 is NaN
F64(m, d, neg) ==
    IF d = 0 THEN (IF m = 0 THEN NaN ELSE Infinity(neg))
    ELSE RoundRatio(neg, BigFromNat(m),
                    BigShr(BigFromNat(d), BigTrailingZeros(BigFromNat(d))),
                    -BigTrailingZeros(BigFromNat(d)))

\* i as f64
FromInt(i) == F64(Abs(i), 1, i < 0)

\* -x
f64_neg(x) == IF is_nan(x) THEN x ELSE [x EXCEPT !.neg = ~@]

\* -1, 0 or 1 as the magnitude of the finite x is below, equal to or above
\* that of the finite y
MagnitudeCmp(x, y) ==
    IF is_zero(x) \/ is_zero(y)
    THEN (IF is_zero(x) /\ is_zero(y) THEN 0 ELSE IF is_zero(x) THEN -1 ELSE 1)
    ELSE IF BigBitLen(x.m) + x.e # BigBitLen(y.m) + y.e
         THEN (IF BigBitLen(x.m) + x.e < BigBitLen(y.m) + y.e THEN -1 ELSE 1)
    ELSE BigCmp(BigShl(x.m, x.e - Min(x.e, y.e)), BigShl(y.m, y.e - Min(x.e, y.e)))

\* the sum of the magnitudes a * 2^e and b * 2^e with their signs, cmp telling
\* which is the larger; equal magnitudes of unlike sign give +0
AddAligned(aneg, a, bneg, b, e, cmp) ==
    RoundF64(IF aneg = bneg THEN aneg ELSE IF cmp = 0 THEN FALSE ELSE IF cmp > 0 THEN aneg ELSE bneg,
             IF aneg = bneg THEN BigAdd(a, b) ELSE IF cmp >= 0 THEN BigSub(a, b) ELSE BigSub(b, a),
             e, FALSE)

\* l + r
f64_add(x, y) ==
    IF is_nan(x) \/ is_nan(y) THEN NaN
    ELSE IF is_infinite(x) /\ is_infinite(y) THEN (IF x.neg = y.neg THEN x ELSE NaN)
    ELSE IF is_infinite(x) THEN x
    ELSE IF is_infinite(y) THEN y
    ELSE IF is_zero(x) /\ is_zero(y) THEN Zero(x.neg /\ y.neg)
    ELSE IF is_zero(x) THEN y
    ELSE IF is_zero(y) THEN x
    ELSE AddAligned(x.neg, BigShl(x.m, x.e - Min(x.e, y.e)),
                    y.neg, BigShl(y.m, y.e - Min(x.e, y.e)), Min(x.e, y.e),
                    MagnitudeCmp(x, y))

\* l - r
f64_sub(x, y) == f64_add(x, f64_neg(y))

\* l * r
f64_mul(x, y) ==
    IF is_nan(x) \/ is_nan(y) THEN NaN
    ELSE IF (is_infinite(x) /\ is_zero(y)) \/ (is_zero(x) /\ is_infinite(y)) THEN NaN
    ELSE IF is_infinite(x) \/ is_infinite(y) THEN Infinity(x.neg # y.neg)
    ELSE RoundF64(x.neg # y.neg, BigMul(x.m, y.m), x.e + y.e, FALSE)

\* l / r: division by zero is not special-cased, it gives an infinity or NaN
f64_div(x, y) ==
    IF is_nan(x) \/ is_nan(y) THEN NaN
    ELSE IF (is_infinite(x) /\ is_infinite(y)) \/ (is_zero(x) /\ is_zero(y)) THEN NaN
    ELSE IF is_infinite(x) \/ is_zero(y) THEN Infinity(x.neg # y.neg)
    ELSE IF is_infinite(y) THEN Zero(x.neg # y.neg)
    ELSE RoundRatio(x.neg # y.neg, x.m, y.m, x.e - y.e)

\* l == r on f64: NaN equals nothing, -0 equals 0
f64_eq(x, y) ==
    /\ ~is_nan(x)
    /\ ~is_nan(y)
    /\ \/ is_zero(x) /\ is_zero(y)
       \/ x = y

\* l < r on f64
f64_lt(x, y) ==
    /\ ~is_nan(x)
    /\ ~is_nan(y)
    /\ IF is_infinite(x) \/ is_infinite(y)
       THEN x # y /\ ((is_infinite(x) /\ x.neg) \/ (is_infinite(y) /\ ~y.neg))
       ELSE IF is_zero(x) /\ is_zero(y) THEN FALSE
       ELSE IF x.neg # y.neg THEN x.neg
       ELSE IF x.neg THEN MagnitudeCmp(x, y) = 1
       ELSE MagnitudeCmp(x, y) = -1

f64_le(x, y) == f64_lt(x, y) \/ f64_eq(x, y)

RECURSIVE Pow10(_)
Pow10(k) == IF k = 0 THEN 1 ELSE 10 * Pow10(k - 1)

AllDigits(t) == \A i \in 1..Len(t) : is_ascii_digit(t[i])

DotAt(t) == IF \E i \in 1..Len(t) : t[i] = "." THEN CHOOSE i \in 1..Len(t) : t[i] = "." ELSE 0

\* the position of the first e or E of t, 0 when there is none
ExpAt(t) ==
    IF \E i \in 1..Len(t) : t[i] \in {"e", "E"}
    THEN CHOOSE i \in 1..Len(t) : t[i] \in {"e", "E"} /\ \A j \in 1..(i - 1) : t[j] \notin {"e", "E"}
    ELSE 0

\* the decimal significand str::parse::<f64> accepts: digits, with at most
\* one '.', and at least one digit
IsDecimal(t) ==
    LET p == DotAt(t)
    IN  IF p = 0 THEN t # <<>> /\ AllDigits(t)
        ELSE /\ AllDigits(SubSeq(t, 1, p - 1))
             /\ AllDigits(SubSeq(t, p + 1, Len(t)))
             /\ Len(t) > 1

HasSign(t) == t # <<>> /\ t[1] \in {"+", "-"}

Unsigned(t) == IF HasSign(t) THEN SubSeq(t, 2, Len(t)) ELSE t

\* char::to_ascii_lowercase, for the letters of the spellings below
to_ascii_lowercase(c) ==
    CASE c = "A" -> "a"
      [] c = "F" -> "f"
      [] c = "I" -> "i"
      [] c = "N" -> "n"
      [] c = "T" -> "t"
      [] c = "Y" -> "y"
      [] OTHER -> c

Lowercase(t) == Limbs([i \in 1..Len(t) |-> to_ascii_lowercase(t[i])])

\* the spellings of the infinities, in any case
IsInfinityWord(t) ==
    \/ Lowercase(t) = <<"i", "n", "f">>
    \/ Lowercase(t) = <<"i", "n", "f", "i", "n", "i", "t", "y">>

\* the spelling of NaN, in any case
IsNanWord(t) == Lowercase(t) = <<"n", "a", "n">>

\* the significand of an unsigned number text: what stands before the exponent
SignificandOf(t) == IF ExpAt(t) = 0 THEN t ELSE SubSeq(t, 1, ExpAt(t) - 1)

\* the exponent of an unsigned number text: what stands after the e
ExponentOf(t) == IF ExpAt(t) = 0 THEN <<>> ELSE SubSeq(t, ExpAt(t) + 1, Len(t))

\* a decimal significand and, after e or E, an exponent: an optional sign and
\* at least one digit
IsNumberForm(t) ==
    /\ IsDecimal(SignificandOf(t))
    /\ ExpAt(t) # 0 => (Unsigned(ExponentOf(t)) # <<>> /\ AllDigits(Unsigned(ExponentOf(t))))

\* value.parse::<f64>() is Ok: an optional sign, then inf, infinity or nan in
\* any case, or a decimal number with an optional exponent
parse_f64_ok(t) ==
    IsInfinityWord(Unsigned(t)) \/ IsNanWord(Unsigned(t)) \/ IsNumberForm(Unsigned(t))

RECURSIVE ClampedValue(_)
\* the integer written by a run of digits, or 100000 when it is beyond that:
\* such an exponent is beyond every f64 whatever the significand of a text is
ClampedValue(ds) ==
    IF ds = <<>> THEN 0
    ELSE Min(100000, 10 * ClampedValue(SubSeq(ds, 1, Len(ds) - 1)) + DigitValue(ds[Len(ds)]))

\* the power of ten of an unsigned number text: its exponent less the number
\* of digits after the '.' of its significand
DecimalExponent(t) ==
    (IF HasSign(ExponentOf(t)) /\ ExponentOf(t)[1] = "-"
     THEN -ClampedValue(Unsigned(ExponentOf(t)))
     ELSE ClampedValue(Unsigned(ExponentOf(t))))
      - (IF DotAt(SignificandOf(t)) = 0 THEN 0
         ELSE Len(SignificandOf(t)) - DotAt(SignificandOf(t)))

\* ds without the zeros at its start
WithoutLeadingZeros(ds) ==
    IF \A i \in 1..Len(ds) : ds[i] = "0" THEN <<>>
    ELSE SubSeq(ds, CHOOSE i \in 1..Len(ds) : ds[i] # "0" /\ \A j \in 1..(i - 1) : ds[j] = "0",
                Len(ds))

\* the digits of the significand of an unsigned number text
SignificandDigits(t) ==
    WithoutLeadingZeros(SelectSeq(SignificandOf(t), LAMBDA c : c # "."))

\* the f64 nearest to ds * 10^x: beyond 10^310 it is an infinity, below
\* 10^-330 it is zero
DecimalToF64(neg, ds, x) ==
    IF ds = <<>> THEN Zero(neg)
    ELSE IF Len(ds) + x > 310 THEN Infinity(neg)
    ELSE IF Len(ds) + x < -330 THEN Zero(neg)
    ELSE IF x >= 0 THEN RoundF64(neg, BigMul(BigFromDigits(ds), BigPow5(x)), x, FALSE)
    ELSE RoundRatio(neg, BigFromDigits(ds), BigPow5(-x), x)

\* the value of an unsigned decimal number text, with the sign read before it
DecimalValue(neg, t) == DecimalToF64(neg, SignificandDigits(t), DecimalExponent(t))

\* value.parse::<f64>().unwrap()
parse_f64(t) ==
    IF IsNanWord(Unsigned(t)) THEN NaN
    ELSE IF IsInfinityWord(Unsigned(t)) THEN Infinity(HasSign(t) /\ t[1] = "-")
    ELSE DecimalValue(HasSign(t) /\ t[1] = "-", Unsigned(t))

----------------------------------------------------------------------------
(* token.rs: LiteralValue and Token *)

\* LiteralValue::Number(n)
Number(x) == [t |-> "Number", num |-> x, str |-> <<>>, b |-> FALSE]

\* LiteralValue::String(s)
String(s) == [t |-> "String", num |-> NaN, str |-> s, b |-> FALSE]

\* LiteralValue::Boolean(b)
Boolean(b) == [t |-> "Boolean", num |-> NaN, str |-> <<>>, b |-> b]

\* LiteralValue::Nil
Nil == [t |-> "Nil", num |-> NaN, str |-> <<>>, b |-> FALSE]

\* Option::<LiteralValue>::None in Token.literal
NoLiteral == [t |-> "None", num |-> NaN, str |-> <<>>, b |-> FALSE]

\* is_truthy with the number zero falsy, as in C
is_truthy_zero_falsy(v) ==
    CASE v.t = "Boolean" -> v.b
      [] v.t = "Nil" -> FALSE
      [] v.t = "Number" -> ~is_zero(v.num)
      [] OTHER -> TRUE

\* LiteralValue::is_truthy
is_truthy(v) ==
    CASE v.t = "Boolean" -> v.b
      [] v.t = "Nil" -> FALSE
      [] OTHER -> TRUE

\* Token::simple
simple(typ, lexeme, line) ==
    [typ |-> typ, lexeme |-> lexeme, literal |-> NoLiteral, line |-> line]

\* Token::with_literal
with_literal(typ, lexeme, literal, line) ==
    [typ |-> typ, lexeme |-> lexeme, literal |-> literal, line |-> line]

----------------------------------------------------------------------------
(* scanner.rs: Scanner *)

\* Scanner::new
new_scanner(source) ==
    [source |-> source, tokens |-> <<>>, start |-> 0, current |-> 0, line |-> 1,
     has_error |-> FALSE, errors |-> <<>>, panicked |-> FALSE]

\* is_at_end that answers one character early
is_at_end_before_last(s) == s.current + 1 >= ByteLen(s.source)

\* Scanner::is_at_end compares the character index with the length in bytes
is_at_end(s) == s.current >= ByteLen(s.source)

\* Scanner::peek
peek(s) == nth(s.source, s.current)

\* Scanner::peek_next
peek_next(s) == nth(s.source, s.current + 1)

\* Scanner::advance (the character it returns is nth(source, current) before)
advance(s) == [s EXCEPT !.current = @ + 1]

\* Scanner::is_digit
is_digit(c) == c # None /\ is_ascii_digit(c[1])

\* Scanner::is_alpha
is_alpha(c) == c # None /\ (is_ascii_alphabetic(c[1]) \/ c[1] = "_")

\* Scanner::is_alpha_numeric
is_alpha_numeric(c) == is_alpha(c) \/ is_digit(c)

\* The lexeme of a scanned token.  The variants of Token of scanner.rs hold no
\* text (String and Number hold their value only) and add_token pushes the
\* variant as it is: the lexeme is not available, which is the case the
\* Display of token.rs falls back to the token type for.
TokenLexeme(s) == <<>>

\* The line of a scanned token.  No variant of Token of scanner.rs holds a
\* line; self.line goes to the error messages only.  Lines count from 1; 0 is
\* no line.
TokenLine(s) == 0

\* Scanner::add_token for a token without payload
add_token(s, typ) ==
    [s EXCEPT !.tokens = Append(@, simple(typ, TokenLexeme(s), TokenLine(s)))]

\* Scanner::add_token for Token::String(value) and Token::Number(value)
add_literal(s, typ, literal) ==
    [s EXCEPT !.tokens = Append(@, with_literal(typ, TokenLexeme(s), literal, TokenLine(s)))]

\* Scanner::error
error(s, line, message) ==
    [s EXCEPT !.has_error = TRUE,
              !.errors = Append(@, [line |-> line, message |-> message])]

\* a panic inside the scanner: the scan never returns
panic(s) == [s EXCEPT !.panicked = TRUE]

\* Scanner::match_char
match_char(s, expected) == peek(s) = Some(expected)

\* the operator arms consuming the character after the operator whatever it is
two_char_skipping(s, expected, long, short) ==
    IF match_char(s, expected) THEN add_token(advance(s), long)
    ELSE add_token(IF is_at_end(s) THEN s ELSE advance(s), short)

\* the two-character operator arms of scan_token
two_char(s, expected, long, short) ==
    IF match_char(s, expected) THEN add_token(advance(s), long) ELSE add_token(s, short)

RECURSIVE skip_comment(_)
\* while matches!(self.peek(), Some(c) if c != '\n') { self.advance(); }
skip_comment(s) ==
    IF peek(s) # None /\ peek(s) # Some("\n") THEN skip_comment(advance(s)) ELSE s

RECURSIVE eat_digits(_)
\* while self.is_digit(self.peek()) { self.advance(); }
eat_digits(s) == IF is_digit(peek(s)) THEN eat_digits(advance(s)) ELSE s

RECURSIVE eat_alpha_numeric(_)
\* while self.is_alpha_numeric(self.peek()) { self.advance(); }
eat_alpha_numeric(s) ==
    IF is_alpha_numeric(peek(s)) THEN eat_alpha_numeric(advance(s)) ELSE s

\* scan_number taking a dot into the lexeme whatever follows it
scan_number_trailing_dot(s0) ==
    LET s1 == eat_digits(s0)
        s2 == IF peek(s1) = Some(".") THEN eat_digits(advance(s1)) ELSE s1
    IN  IF ~SliceOk(s2.source, s2.start, s2.current) THEN panic(s2)
        ELSE LET value == ByteSlice(s2.source, s2.start, s2.current)
             IN  IF ~parse_f64_ok(value) THEN panic(s2)
                 ELSE add_literal(s2, "Number", Number(parse_f64(value)))

\* Scanner::scan_number
scan_number(s0) ==
    LET s1 == eat_digits(s0)
        s2 == IF peek(s1) = Some(".") /\ is_digit(peek_next(s1))
              THEN eat_digits(advance(s1))
              ELSE s1
    IN  IF ~SliceOk(s2.source, s2.start, s2.current) THEN panic(s2)
        ELSE LET value == ByteSlice(s2.source, s2.start, s2.current)
             IN  IF ~parse_f64_ok(value) THEN panic(s2)
                 ELSE add_literal(s2, "Number", Number(parse_f64(value)))

\* Scanner::identifier
identifier(s) == add_token(eat_alpha_numeric(s), "Identifier")

RECURSIVE string_body(_)
\* the while loop of Scanner::string
string_body(s) ==
    IF peek(s) # None /\ peek(s) # Some("\"")
    THEN string_body(advance(IF peek(s) = Some("\n") THEN [s EXCEPT !.line = @ + 1] ELSE s))
    ELSE s

\* Scanner::string
string(s0) ==
    LET s1 == string_body(s0)
    IN  IF is_at_end(s1) THEN error(s1, s1.line, "Unterminated string.")
        ELSE LET s2 == advance(s1)
             IN  IF ~SliceOk(s2.source, s2.start + 1, s2.current - 1) THEN panic(s2)
                 ELSE add_literal(s2, "String",
                                  String(ByteSlice(s2.source, s2.start + 1, s2.current - 1)))

\* Scanner::scan_token
scan_token(s0) ==
    LET c == nth(s0.source, s0.current)
        s == advance(s0)
    IN  IF c = None THEN s
        ELSE CASE c[1] = "(" -> add_token(s, "LeftParen")
               [] c[1] = ")" -> add_token(s, "RightParen")
               [] c[1] = "{" -> add_token(s, "LeftBrace")
               [] c[1] = "}" -> add_token(s, "RightBrace")
               [] c[1] = "," -> add_token(s, "Comma")
               [] c[1] = "." -> add_token(s, "Dot")
               [] c[1] = "-" -> add_token(s, "Minus")
               [] c[1] = "+" -> add_token(s, "Plus")
               [] c[1] = ";" -> add_token(s, "SemiColon")
               [] c[1] = "*" -> add_token(s, "Star")
               [] c[1] = "!" -> two_char(s, "=", "BangEqual", "Bang")
               [] c[1] = "=" -> two_char(s, "=", "EqualEqual", "Equal")
               [] c[1] = "<" -> two_char(s, "=", "LessEqual", "Less")
               [] c[1] = ">" -> two_char(s, "=", "GreaterEqual", "Greater")
               [] c[1] = "/" -> IF match_char(s, "/")
                                THEN skip_comment(advance(s))
                                ELSE add_token(s, "Slash")
               [] c[1] \in {" ", "\r", "\t"} -> s
               [] c[1] = "\n" -> [s EXCEPT !.line = @ + 1]
               [] c[1] = "\"" -> string(s)
               [] OTHER -> IF is_ascii_digit(c[1]) THEN scan_number(s)
                           ELSE IF is_alpha_numeric(c) THEN identifier(s)
                           ELSE error(s, s.line, "Unexpected character.")

\* the body of the while loop of Scanner::scan_tokens
scan_step(s) == scan_token([s EXCEPT !.start = s.current])

\* The line of the end-of-input token.  Token::Eof of scanner.rs is a unit
\* variant and scan_tokens pushes it as it is: it holds no line, whatever
\* self.line is at the end of the scan.
EofLine(s) == 0

\* the end of Scanner::scan_tokens: self.tokens.push(Token::Eof)
push_eof(s) == [s EXCEPT !.tokens = Append(@, simple("Eof", <<>>, EofLine(s)))]

RECURSIVE scan_loop(_)
\* the while loop of Scanner::scan_tokens, run to its end (or to a panic)
scan_loop(s) ==
    IF s.panicked \/ is_at_end(s) THEN s ELSE scan_loop(scan_step(s))

\* Scanner::scan_tokens as a whole: the scanner it leaves
scan_tokens(source) ==
    LET s == scan_loop(new_scanner(source))
    IN  IF s.panicked THEN s ELSE push_eof(s)

----------------------------------------------------------------------------
(* parser.rs: the syntax tree *)

\* Expr::Binary(Binary { left, operator, right })
Binary(left, operator, right) ==
    [kind |-> "Binary", left |-> left, operator |-> operator, right |-> right]

\* Expr::Unary(Unary { operator, right })
Unary(operator, right) == [kind |-> "Unary", operator |-> operator, right |-> right]

\* Expr::Grouping(Grouping { expr })
Grouping(expr) == [kind |-> "Grouping", expr |-> expr]

\* Expr::Literal(Literal { value })
Literal(value) == [kind |-> "Literal", value |-> value]

\* the variable expression the interpreter visits (visit_variable(token))
Variable(name) == [kind |-> "Variable", name |-> name]

\* the assignment expression the interpreter visits (visit_assign(token, value))
Assign(name, value) == [kind |-> "Assign", name |-> name, value |-> value]

\* Option::<Box<Expr>>::None
NoExpr == [kind |-> "None"]

\* Stmt::Expr(expr)
ExprStmt(expr) == [kind |-> "Expr", expr |-> expr]

\* Stmt::Print(expr)
PrintStmt(expr) == [kind |-> "Print", expr |-> expr]

\* Stmt::Variable(Var { name, initializer })
VarStmt(name, initializer) == [kind |-> "Variable", name |-> name, initializer |-> initializer]

\* ParseError { token, message }
ParseError(token, message) == [token |-> token, message |-> message]

\* Ok(value) of a grammar rule, with the cursor it leaves
POk(val, cur) == [ok |-> TRUE, panicked |-> FALSE, val |-> val, cur |-> cur]

\* Err(ParseError) of a grammar rule, with the cursor it leaves
PErr(token, message, cur) ==
    [ok |-> FALSE, panicked |-> FALSE, val |-> ParseError(token, message), cur |-> cur]

\* the panic of Option::unwrap on the literal None of a token: no Result is
\* returned, the panic unwinds through every rule that called
PPanic(token, cur) ==
    [ok |-> FALSE, panicked |-> TRUE,
     val |-> ParseError(token, "called Option::unwrap() on a None value"), cur |-> cur]

----------------------------------------------------------------------------
(* parser.rs: Parser.  toks is Parser.tokens, cur is Parser.current. *)

\* Parser::peek
parser_peek(toks, cur) == toks[cur + 1]

\* Parser::previous
previous(toks, cur) == toks[cur]

\* Parser::is_at_end
parser_is_at_end(toks, cur) == parser_peek(toks, cur).typ = "Eof"

\* Parser::check
check(toks, cur, token_type) ==
    IF parser_is_at_end(toks, cur) THEN FALSE ELSE parser_peek(toks, cur).typ = token_type

\* Parser::advance: the cursor after it
parser_advance(toks, cur) == IF ~parser_is_at_end(toks, cur) THEN cur + 1 ELSE cur

\* Parser::match_token: whether one of the types matches (the cursor then advances)
match_token(toks, cur, types) == \E token_type \in types : check(toks, cur, token_type)

\* consume stepping over a token it did not expect when more tokens follow
consume_skipping(toks, cur, token_type, message) ==
    IF check(toks, cur, token_type)
    THEN POk(previous(toks, cur + 1), cur + 1)
    ELSE IF cur + 2 <= Len(toks)
    THEN POk(parser_peek(toks, cur), cur + 1)
    ELSE PErr(parser_peek(toks, cur), message, cur)

\* Parser::consume
consume(toks, cur, token_type, message) ==
    IF check(toks, cur, token_type)
    THEN POk(previous(toks, cur + 1), cur + 1)
    ELSE PErr(parser_peek(toks, cur), message, cur)

\* the token types of each precedence level
equality_types == {"BangEqual", "EqualEqual"}

comparison_types == {"Greater", "GreaterEqual", "Less", "LessEqual"}

term_types == {"Minus", "Plus"}

factor_types == {"Slash", "Star"}

unary_types == {"Bang", "Minus"}

\* The ? operator on the Result of a grammar rule: an Err returns at once,
\* an Ok value goes on into the rest of the function
Try(r, rest(_)) == IF r.ok THEN rest(r) ELSE r

\* A let binding: the value v is worked out once and named in rest
With(v, rest(_)) == rest(v)

RECURSIVE expression(_, _)
RECURSIVE equality_loop(_, _, _)
RECURSIVE comparison(_, _)
RECURSIVE comparison_loop(_, _, _)
RECURSIVE term(_, _)
RECURSIVE term_loop(_, _, _)
RECURSIVE factor(_, _)
RECURSIVE factor_loop(_, _, _)
RECURSIVE unary(_, _)

\* Parser::primary
primary(toks, cur) ==
    IF match_token(toks, cur, {"False"}) THEN POk(Literal(Boolean(FALSE)), cur + 1)
    ELSE IF match_token(toks, cur, {"True"}) THEN POk(Literal(Boolean(TRUE)), cur + 1)
    ELSE IF match_token(toks, cur, {"Nil"}) THEN POk(Literal(Nil), cur + 1)
    ELSE IF match_token(toks, cur, {"String"})
         THEN (IF previous(toks, cur + 1).literal = NoLiteral
               THEN PPanic(previous(toks, cur + 1), cur + 1)
               ELSE POk(Literal(previous(toks, cur + 1).literal), cur + 1))
    ELSE IF match_token(toks, cur, {"Number"})
         THEN (IF previous(toks, cur + 1).literal = NoLiteral
               THEN PPanic(previous(toks, cur + 1), cur + 1)
               ELSE POk(Literal(previous(toks, cur + 1).literal), cur + 1))
    ELSE IF match_token(toks, cur, {"LeftParen"})
         THEN Try(expression(toks, cur + 1), LAMBDA expr :
              Try(consume(toks, expr.cur, "RightParen", "Expect ')' after expression."),
                  LAMBDA c : POk(Grouping(expr.val), c.cur)))
    ELSE PErr(parser_peek(toks, cur), "Expected expression, got '{}'", cur)

\* Parser::unary
unary(toks, cur) ==
    IF match_token(toks, cur, unary_types)
    THEN Try(unary(toks, cur + 1), LAMBDA right :
             POk(Unary(previous(toks, cur + 1), right.val), right.cur))
    ELSE primary(toks, cur)

\* the while loop of Parser::factor: expr is the accumulated left operand
factor_loop(toks, cur, expr) ==
    IF match_token(toks, cur, factor_types)
    THEN Try(unary(toks, cur + 1), LAMBDA right :
             factor_loop(toks, right.cur, Binary(expr, previous(toks, cur + 1), right.val)))
    ELSE POk(expr, cur)

\* Parser::factor
factor(toks, cur) ==
    Try(unary(toks, cur), LAMBDA expr : factor_loop(toks, expr.cur, expr.val))

\* Parser::term with the right operand parsed by unary: '*' no longer binds
\* tighter than '+'
term_loop_unary_operand(toks, cur, expr) ==
    IF match_token(toks, cur, term_types)
    THEN Try(unary(toks, cur + 1), LAMBDA right :
             term_loop(toks, right.cur, Binary(expr, previous(toks, cur + 1), right.val)))
    ELSE POk(expr, cur)

\* Parser::term folding to the right: the right operand is the rest of the chain
term_loop_right_fold(toks, cur, expr) ==
    IF match_token(toks, cur, term_types)
    THEN Try(term(toks, cur + 1), LAMBDA right :
             POk(Binary(expr, previous(toks, cur + 1), right.val), right.cur))
    ELSE POk(expr, cur)

\* the while loop of Parser::term
term_loop(toks, cur, expr) ==
    IF match_token(toks, cur, term_types)
    THEN Try(factor(toks, cur + 1), LAMBDA right :
             term_loop(toks, right.cur, Binary(expr, previous(toks, cur + 1), right.val)))
    ELSE POk(expr, cur)

\* Parser::term
term(toks, cur) ==
    Try(factor(toks, cur), LAMBDA expr : term_loop(toks, expr.cur, expr.val))

\* the while loop of Parser::comparison
comparison_loop(toks, cur, expr) ==
    IF match_token(toks, cur, comparison_types)
    THEN Try(term(toks, cur + 1), LAMBDA right :
             comparison_loop(toks, right.cur, Binary(expr, previous(toks, cur + 1), right.val)))
    ELSE POk(expr, cur)

\* Parser::comparison
comparison(toks, cur) ==
    Try(term(toks, cur), LAMBDA expr : comparison_loop(toks, expr.cur, expr.val))

\* the while loop of Parser::equality
equality_loop(toks, cur, expr) ==
    IF match_token(toks, cur, equality_types)
    THEN Try(comparison(toks, cur + 1), LAMBDA right :
             equality_loop(toks, right.cur, Binary(expr, previous(toks, cur + 1), right.val)))
    ELSE POk(expr, cur)

\* Parser::equality
equality(toks, cur) ==
    Try(comparison(toks, cur), LAMBDA expr : equality_loop(toks, expr.cur, expr.val))

\* Parser::expression
expression(toks, cur) == equality(toks, cur)

\* Parser::parse_expr
parse_expr(toks) == expression(toks, 0)

\* Parser::print_statement
print_statement(toks, cur) ==
    Try(expression(toks, cur), LAMBDA expr :
    Try(consume(toks, expr.cur, "SemiColon", "Expect ';' after expression."), LAMBDA c :
        POk(PrintStmt(expr.val), c.cur)))

\* Parser::expression_statement
expression_statement(toks, cur) ==
    Try(expression(toks, cur), LAMBDA expr :
    Try(consume(toks, expr.cur, "SemiColon", "Expect ';' after expression."), LAMBDA c :
        POk(ExprStmt(expr.val), c.cur)))

\* the initializer of Parser::var_declaration: Some(expression) after '=', else None
initializer(toks, cur) ==
    IF match_token(toks, cur, {"Equal"}) THEN expression(toks, cur + 1) ELSE POk(NoExpr, cur)

\* Parser::var_declaration
var_declaration(toks, cur) ==
    Try(consume(toks, cur, "Identifier", "Expect variable name."), LAMBDA name :
    Try(initializer(toks, name.cur), LAMBDA init :
    Try(consume(toks, init.cur, "SemiColon", "Expect ';' after variable declaration."),
        LAMBDA c : POk(VarStmt(name.val, init.val), c.cur))))

\* Parser::statement
statement(toks, cur) ==
    IF match_token(toks, cur, {"Print"}) THEN print_statement(toks, cur + 1)
    ELSE expression_statement(toks, cur)

\* Parser::declaration
declaration(toks, cur) ==
    IF match_token(toks, cur, {"Var"}) THEN var_declaration(toks, cur + 1)
    ELSE statement(toks, cur)

RECURSIVE parse_loop_keep_parsed(_, _, _)
\* Parser::parse returning the statements parsed before an error
parse_loop_keep_parsed(toks, cur, stmts) ==
    IF ~parser_is_at_end(toks, cur) /\ declaration(toks, cur).ok
    THEN Try(declaration(toks, cur), LAMBDA stmt :
             parse_loop_keep_parsed(toks, stmt.cur, Append(stmts, stmt.val)))
    ELSE POk(stmts, cur)

RECURSIVE parse_loop(_, _, _)
\* the while loop of Parser::parse: stmts is the Vec built so far
parse_loop(toks, cur, stmts) ==
    IF ~parser_is_at_end(toks, cur)
    THEN Try(declaration(toks, cur), LAMBDA stmt :
             parse_loop(toks, stmt.cur, Append(stmts, stmt.val)))
    ELSE POk(stmts, cur)

\* Parser::parse
parse(toks) == parse_loop(toks, 0, <<>>)

----------------------------------------------------------------------------
(* Display forms *)

\* whether the upper end r + mp of the rounding interval reaches s; the end
\* itself reads back as the number when its significand is even (incl)
ReachesHigh(r, mp, s, incl) ==
    IF incl THEN BigCmp(BigAdd(r, mp), s) >= 0 ELSE BigCmp(BigAdd(r, mp), s) > 0

\* whether r lies within the lower half mm of the rounding interval
WithinLow(r, mm, incl) ==
    IF incl THEN BigCmp(r, mm) <= 0 ELSE BigCmp(r, mm) < 0

RECURSIVE Quotient(_, _, _)
\* <<d + r / s rounded down, r mod s>>
Quotient(r, s, d) ==
    IF BigCmp(r, s) >= 0 THEN Quotient(BigSub(r, s), s, d + 1) ELSE <<d, r>>

RECURSIVE ShortestDigits(_, _, _, _, _)
\* the digit dr[1] is the last one when what remains of the number, dr[2] / s,
\* lies within the rounding interval; it is then rounded to the nearer end
ShortestStep(dr, s, mp, mm, incl) ==
    IF ~WithinLow(dr[2], mm, incl) /\ ~ReachesHigh(dr[2], mp, s, incl)
    THEN <<dr[1]>> \o ShortestDigits(dr[2], s, mp, mm, incl)
    ELSE IF ~ReachesHigh(dr[2], mp, s, incl) THEN <<dr[1]>>
    ELSE IF ~WithinLow(dr[2], mm, incl) THEN <<dr[1] + 1>>
    ELSE IF BigCmp(BigMulSmall(dr[2], 2), s) < 0 THEN <<dr[1]>>
    ELSE <<dr[1] + 1>>

\* the digits of the shortest decimal fraction between (r - mm) / s and
\* (r + mp) / s, the one nearest to r / s
ShortestDigits(r, s, mp, mm, incl) ==
    ShortestStep(Quotient(BigMulSmall(r, 10), s, 0), s,
                 BigMulSmall(mp, 10), BigMulSmall(mm, 10), incl)

RECURSIVE ShortestScaled(_, _, _, _, _, _)
\* <<digits, k>>: the shortest decimal is 0.digits * 10^k, k such that the
\* upper end of the interval is below 10^k and not below 10^(k-1)
ShortestScaled(r, s, mp, mm, incl, k) ==
    IF ReachesHigh(r, mp, s, incl)
    THEN ShortestScaled(r, BigMulSmall(s, 10), mp, mm, incl, k + 1)
    ELSE IF ~ReachesHigh(BigMulSmall(r, 10), BigMulSmall(mp, 10), s, incl)
    THEN ShortestScaled(BigMulSmall(r, 10), s, BigMulSmall(mp, 10),
                        BigMulSmall(mm, 10), incl, k - 1)
    ELSE <<ShortestDigits(r, s, mp, mm, incl), k>>

\* the bits the 53-bit (or subnormal) significand of x has below those of m
SignificandShift(x) == Min(53 - BigBitLen(x.m), x.e + 1074)

\* whether x is a power of two above the subnormal numbers: the f64 below it
\* is half as far as the one above
AtBinadeStart(x) == x.m = <<1>> /\ SignificandShift(x) = 52 /\ x.e > -1022

\* the exponent of the unit the rounding interval of x is counted in: half of
\* the smaller of the distances to the f64 below and above
IntervalUnit(x) ==
    x.e - SignificandShift(x) - (IF AtBinadeStart(x) THEN 2 ELSE 1)

\* an estimate of the decimal exponent of x from its binary one: it is at
\* most one off, and ShortestScaled goes on from it
DecimalEstimate(x) == ((BigBitLen(x.m) + x.e - 1) * 30103) \div 100000

\* a * p when up, else a
ScaledBy(a, p, up) == IF up THEN BigMul(a, p) ELSE a

\* ShortestScaled begun at the power of ten k, of which p is the magnitude
ShortestFrom(r, s, mp, mm, incl, k, p) ==
    ShortestScaled(ScaledBy(r, p, k < 0), ScaledBy(s, p, k >= 0),
                   ScaledBy(mp, p, k < 0), ScaledBy(mm, p, k < 0), incl, k)

\* a * 2^k, or a when k is negative
ShlIfUp(a, k) == IF k >= 0 THEN BigShl(a, k) ELSE a

\* the shortest decimal that reads back as the finite x # 0: every number
\* within half the distance to the neighbouring f64 reads back as x.  The
\* number, the half distances above and below it and their common divisor
\* are counted in units of 2^IntervalUnit(x), or of 1 when that is less
Shortest(x) ==
    ShortestFrom(BigShl(x.m, x.e - Min(IntervalUnit(x), 0)),
                 ShlIfUp(<<1>>, -IntervalUnit(x)),
                 ShlIfUp(IF AtBinadeStart(x) THEN <<2>> ELSE <<1>>, IntervalUnit(x)),
                 ShlIfUp(<<1>>, IntervalUnit(x)),
                 SignificandShift(x) > 0,
                 DecimalEstimate(x), BigPow10(Abs(DecimalEstimate(x))))

DigitString(ds) == [i \in 1..Len(ds) |-> DigitChars[ds[i] + 1]]

Zeros(n) == [i \in 1..n |-> "0"]

\* 0.digits * 10^k written without an exponent
DecimalString(ds, k) ==
    IF k <= 0 THEN <<"0", ".">> \o Zeros(-k) \o DigitString(ds)
    ELSE IF k < Len(ds)
    THEN DigitString(SubSeq(ds, 1, k)) \o <<".">> \o DigitString(SubSeq(ds, k + 1, Len(ds)))
    ELSE DigitString(ds) \o Zeros(k - Len(ds))

ShortestString(dk) == DecimalString(dk[1], dk[2])

\* f64's Display ("{}"): the shortest decimal that reads back as the number
f64_to_string(x) ==
    IF is_nan(x) THEN <<"N", "a", "N">>
    ELSE (IF x.neg THEN <<"-">> ELSE <<>>)
           \o (IF is_infinite(x) THEN <<"i", "n", "f">>
               ELSE IF is_zero(x) THEN <<"0">>
               ELSE ShortestString(Shortest(x)))

\* bool's Display
bool_to_string(b) == IF b THEN <<"t", "r", "u", "e">> ELSE <<"f", "a", "l", "s", "e">>

\* impl Display for LiteralValue (token.rs)
literal_to_string(v) ==
    CASE v.t = "Number" -> f64_to_string(v.num)
      [] v.t = "String" -> <<"\"">> \o v.str \o <<"\"">>
      [] v.t = "Boolean" -> bool_to_string(v.b)
      [] OTHER -> <<"n", "i", "l">>

\* impl Display for TokenType (token.rs)
token_type_to_string(typ) ==
    CASE typ = "LeftParen" -> <<"(">>
      [] typ = "RightParen" -> <<")">>
      [] typ = "LeftBrace" -> <<"{">>
      [] typ = "RightBrace" -> <<"}">>
      [] typ = "Comma" -> <<",">>
      [] typ = "Dot" -> <<".">>
      [] typ = "Minus" -> <<"-">>
      [] typ = "Plus" -> <<"+">>
      [] typ = "SemiColon" -> <<";">>
      [] typ = "Star" -> <<"*">>
      [] typ = "Slash" -> <<"/">>
      [] typ = "Bang" -> <<"!">>
      [] typ = "BangEqual" -> <<"!", "=">>
      [] typ = "Equal" -> <<"=">>
      [] typ = "EqualEqual" -> <<"=", "=">>
      [] typ = "Less" -> <<"<">>
      [] typ = "LessEqual" -> <<"<", "=">>
      [] typ = "Greater" -> <<">">>
      [] typ = "GreaterEqual" -> <<">", "=">>
      [] typ = "Identifier" -> <<"i", "d", "e", "n", "t", "i", "f", "i", "e", "r">>
      [] typ = "String" -> <<"s", "t", "r", "i", "n", "g">>
      [] typ = "Number" -> <<"n", "u", "m", "b", "e", "r">>
      [] typ = "True" -> <<"t", "r", "u", "e">>
      [] typ = "False" -> <<"f", "a", "l", "s", "e">>
      [] typ = "Nil" -> <<"n", "i", "l">>
      [] typ = "Eof" -> <<"E", "O", "F">>

\* impl Display for Token (token.rs)
token_to_string(tok) ==
    IF tok.lexeme # <<>> THEN tok.lexeme ELSE token_type_to_string(tok.typ)

RECURSIVE print_ast(_)
\* impl ExprVisitor<String> for AstPrinter (ast_printer.rs)
print_ast(e) ==
    CASE e.kind = "Binary" ->
           <<"(">> \o token_to_string(e.operator) \o <<" ">> \o print_ast(e.left)
                   \o <<" ">> \o print_ast(e.right) \o <<")">>
      [] e.kind = "Unary" ->
           <<"(">> \o token_to_string(e.operator) \o <<" ">> \o print_ast(e.right) \o <<")">>
      [] e.kind = "Grouping" ->
           <<"(", "g", "r", "o", "u", "p", " ">> \o print_ast(e.expr) \o <<")">>
      [] OTHER ->
           CASE e.value.t = "Number" -> f64_to_string(e.value.num)
             [] e.value.t = "String" -> e.value.str
             [] e.value.t = "Boolean" -> bool_to_string(e.value.b)
             [] OTHER -> <<"n", "i", "l">>

----------------------------------------------------------------------------
(* intrepreter.rs and expr_eval.rs: the evaluator *)

\* RuntimeError { message, line }
RuntimeError(message, line) == [message |-> message, line |-> line]

\* RuntimeError::invalid_operands
invalid_operands(message, token) == RuntimeError(<<"Invalid operands", message>>, token.line)

\* RuntimeError::invalid_operator
invalid_operator(token) == RuntimeError(<<"Invalid operator", token.typ>>, token.line)

\* RuntimeError::undefined_variable
undefined_variable(name, line) == RuntimeError(<<"Undefined variable", name>>, line)

\* Ok(value) of a visit, with the environment it leaves
EOk(val, env) == [ok |-> TRUE, val |-> val, env |-> env]

\* Err(RuntimeError) of a visit, with the environment it leaves
EErr(err, env) == [ok |-> FALSE, val |-> err, env |-> env]

\* Environment::new
new_environment == [n \in {} |-> Nil]

\* define that only rebinds: a name that is not bound stays unbound
define_only_bound(env, name, value) ==
    [n \in DOMAIN env |-> IF n = name THEN value ELSE env[n]]

\* Interpreter::define
define(env, name, value) ==
    [n \in (DOMAIN env) \cup {name} |-> IF n = name THEN value ELSE env[n]]

\* Interpreter::get
get(env, line, name) ==
    IF name \in DOMAIN env THEN EOk(env[name], env)
    ELSE EErr(undefined_variable(name, line), env)

\* the num closure of evaluate_binary_expr
num(left, right, op, f) ==
    IF left.t = "Number" /\ right.t = "Number"
    THEN [ok |-> TRUE, val |-> Number(f)]
    ELSE [ok |-> FALSE, val |-> invalid_operands("Expected numbers", op)]

\* derive(PartialEq) for LiteralValue: l == r
literal_eq(left, right) ==
    /\ left.t = right.t
    /\ CASE left.t = "Number" -> f64_eq(left.num, right.num)
         [] left.t = "String" -> left.str = right.str
         [] left.t = "Boolean" -> left.b = right.b
         [] OTHER -> TRUE

\* the eq closure without its check of the operand types: values of different
\* types compare unequal
eq_any_types(left, right, op, f) == [ok |-> TRUE, val |-> Boolean(f)]

\* the eq closure of evaluate_binary_expr: f is the comparison's result
eq(left, right, op, f) ==
    IF \/ left.t = "Number" /\ right.t = "Number"
       \/ left.t = "String" /\ right.t = "String"
       \/ left.t = "Boolean" /\ right.t = "Boolean"
    THEN [ok |-> TRUE, val |-> Boolean(f)]
    ELSE [ok |-> FALSE, val |-> invalid_operands("Expected comparable types", op)]

\* a Plus arm that concatenates a String with the display form of any value
plus_coercing(left, right, op) ==
    IF left.t = "Number" /\ right.t = "Number"
    THEN [ok |-> TRUE, val |-> Number(f64_add(left.num, right.num))]
    ELSE IF left.t = "String" /\ right.t = "String"
    THEN [ok |-> TRUE, val |-> String(left.str \o right.str)]
    ELSE IF left.t = "String"
    THEN [ok |-> TRUE, val |-> String(left.str \o literal_to_string(right))]
    ELSE IF right.t = "String"
    THEN [ok |-> TRUE, val |-> String(literal_to_string(left) \o right.str)]
    ELSE [ok |-> FALSE, val |-> invalid_operands("Expected a number or string", op)]

\* the TokenType::Plus arm of evaluate_binary_expr
plus(left, right, op) ==
    IF left.t = "Number" /\ right.t = "Number"
    THEN [ok |-> TRUE, val |-> Number(f64_add(left.num, right.num))]
    ELSE IF left.t = "String" /\ right.t = "String"
    THEN [ok |-> TRUE, val |-> String(left.str \o right.str)]
    ELSE IF left.t = "Number"
    THEN [ok |-> FALSE, val |-> invalid_operands("Expected a number", op)]
    ELSE IF left.t = "String"
    THEN [ok |-> FALSE, val |-> invalid_operands("Expected a string", op)]
    ELSE [ok |-> FALSE, val |-> invalid_operands("Expected a number or string", op)]

\* the ordering arm of evaluate_binary_expr
ordering(left, right, op) ==
    IF left.t = "Number" /\ right.t = "Number"
    THEN [ok |-> TRUE,
          val |-> Boolean(CASE op.typ = "Greater" -> f64_lt(right.num, left.num)
                            [] op.typ = "GreaterEqual" -> f64_le(right.num, left.num)
                            [] op.typ = "Less" -> f64_lt(left.num, right.num)
                            [] OTHER -> f64_le(left.num, right.num))]
    ELSE [ok |-> FALSE, val |-> invalid_operands("Expected numbers", op)]

\* evaluate_binary_expr
evaluate_binary_expr(left, right, op) ==
    CASE op.typ = "Plus" -> plus(left, right, op)
      [] op.typ = "Minus" -> num(left, right, op, f64_sub(left.num, right.num))
      [] op.typ = "Star" -> num(left, right, op, f64_mul(left.num, right.num))
      [] op.typ = "Slash" -> num(left, right, op, f64_div(left.num, right.num))
      [] op.typ = "EqualEqual" -> eq(left, right, op, literal_eq(left, right))
      [] op.typ = "BangEqual" -> eq(left, right, op, ~literal_eq(left, right))
      [] op.typ \in {"Greater", "GreaterEqual", "Less", "LessEqual"} -> ordering(left, right, op)
      [] OTHER -> [ok |-> FALSE, val |-> invalid_operator(op)]

\* the match of visit_unary on the operator and the operand's value
unary_value(operator, right) ==
    IF operator.typ = "Minus" /\ right.t = "Number"
    THEN [ok |-> TRUE, val |-> Number(f64_neg(right.num))]
    ELSE IF operator.typ = "Bang"
    THEN [ok |-> TRUE, val |-> Boolean(~is_truthy(right))]
    ELSE [ok |-> FALSE, val |-> invalid_operator(operator)]

\* the Result of an operator, with the environment its operands left
in_env(r, env) == [ok |-> r.ok, val |-> r.val, env |-> env]

RECURSIVE evaluate(_, _)
\* impl ExprVisitorMut<Result<LiteralValue, RuntimeError>> for Interpreter:
\* visit_binary, visit_variable, visit_assign, visit_unary, visit_grouping, visit_literal
evaluate(e, env) ==
    CASE e.kind = "Binary" ->
           Try(evaluate(e.left, env), LAMBDA left :
           Try(evaluate(e.right, left.env), LAMBDA right :
               in_env(evaluate_binary_expr(left.val, right.val, e.operator), right.env)))
      [] e.kind = "Variable" -> get(env, e.name.line, e.name.lexeme)
      [] e.kind = "Assign" ->
           Try(evaluate(e.value, env), LAMBDA val :
               EOk(val.val, define(val.env, e.name.lexeme, val.val)))
      [] e.kind = "Unary" ->
           Try(evaluate(e.right, env), LAMBDA right :
               in_env(unary_value(e.operator, right.val), right.env))
      [] e.kind = "Grouping" -> evaluate(e.expr, env)
      [] OTHER -> EOk(e.value, env)

\* the result of executing one statement: the environment and the output it
\* leaves, and the error if it failed
SOk(env, out) == [ok |-> TRUE, env |-> env, out |-> out, err |-> RuntimeError(<<>>, 0)]

SErr(err, env, out) == [ok |-> FALSE, env |-> env, out |-> out, err |-> err]

\* StmtVisitorMut::visit_expr
visit_expr(expr, env, out) ==
    With(evaluate(expr, env), LAMBDA v :
         IF ~v.ok THEN SErr(v.val, v.env, out) ELSE SOk(v.env, out))

\* StmtVisitorMut::visit_print
visit_print(expr, env, out) ==
    With(evaluate(expr, env), LAMBDA v :
         IF ~v.ok THEN SErr(v.val, v.env, out)
         ELSE SOk(v.env, Append(out, literal_to_string(v.val))))

\* visit_variable that leaves a name already bound as it is
visit_variable_keep_bound(var, env, out) ==
    IF var.name.lexeme \in DOMAIN env THEN SOk(env, out)
    ELSE IF var.initializer # NoExpr
    THEN With(evaluate(var.initializer, env), LAMBDA v :
              IF ~v.ok THEN SErr(v.val, v.env, out)
              ELSE SOk(define(v.env, var.name.lexeme, v.val), out))
    ELSE SOk(define(env, var.name.lexeme, Nil), out)

\* visit_variable binding the name to Nil when its initializer fails
visit_variable_bind_on_error(var, env, out) ==
    IF var.initializer # NoExpr
    THEN With(evaluate(var.initializer, env), LAMBDA v :
              IF ~v.ok THEN SErr(v.val, define(v.env, var.name.lexeme, Nil), out)
              ELSE SOk(define(v.env, var.name.lexeme, v.val), out))
    ELSE SOk(define(env, var.name.lexeme, Nil), out)

\* StmtVisitorMut::visit_variable
visit_variable(var, env, out) ==
    IF var.initializer # NoExpr
    THEN With(evaluate(var.initializer, env), LAMBDA v :
              IF ~v.ok THEN SErr(v.val, v.env, out)
              ELSE SOk(define(v.env, var.name.lexeme, v.val), out))
    ELSE SOk(define(env, var.name.lexeme, Nil), out)

\* Stmt::accept_mut
accept_mut(stmt, env, out) ==
    CASE stmt.kind = "Expr" -> visit_expr(stmt.expr, env, out)
      [] stmt.kind = "Print" -> visit_print(stmt.expr, env, out)
      [] OTHER -> visit_variable(stmt, env, out)

----------------------------------------------------------------------------
(* The inputs of the model *)

\* the end-to-end scenario of the specification
SrcScenario ==
    <<"v", "a", "r", " ", "a", " ", "=", " ", "1", ";", " ", "v", "a", "r", " ", "b", " ",
          "=", " ", "2", ";", " ", "p", "r", "i", "n", "t", " ", "a", " ", "+", " ", "b",
          ";">>

\* a reference to a name never declared
SrcPrintX ==
    <<"p", "r", "i", "n", "t", " ", "x", ";">>

\* tests::parses_operator_precedence
SrcPrecedence ==
    <<"1", " ", "+", " ", "2", " ", "*", " ", "3">>

\* the left-associativity example
SrcLeftAssoc ==
    <<"1", " ", "-", " ", "2", " ", "-", " ", "3">>

\* the type-strict equality example
SrcStrictEq ==
    <<"1", " ", "=", "=", " ", "\"", "1", "\"">>

\* the truthiness examples
SrcNotNil ==
    <<"!", "n", "i", "l">>

SrcNotZero ==
    <<"!", "0">>

\* tests::reports_error_on_unterminated_parentheses
SrcLoneParen ==
    <<"(">>

\* the unterminated string example
SrcUnterminated ==
    <<"\"", "a", "b", "c">>

\* tests::parses_grouping_expression
SrcGrouping ==
    <<"(", "1", " ", "+", " ", "2", ")", " ", "*", " ", "3">>

\* tests::parses_unary_minus
SrcUnaryMinus ==
    <<"-", "1", "2", "3">>

\* test::testit of scanner.rs
SrcScannerTest ==
    <<"{", "}", " ", "(", ")", " ", "2", "3", "4", "5", "4", " ", "+", " ", "2", "3", ".",
          "4", " ", "-", " ", "2", "3", ".", "4", " ", "+", " ", "/", "/", " ", "H", "i",
          "\n", " ", "+">>

\* expression statements, the third one fails at run time
SrcExprStmts ==
    <<"1", " ", "+", " ", "2", ";", " ", "\"", "a", "\"", " ", "=", "=", " ", "\"", "a",
          "\"", ";", " ", "-", "\"", "b", "\"", ";", " ", "3", ";">>

\* strings over several lines, the last one unterminated
SrcMultiLine ==
    <<"\"", "a", "\n", "b", "\"", " ", "+", " ", "1", "\n", "-", " ", "\"", "c", "\n">>

\* an unterminated string that holds a character outside ASCII
SrcNonAsciiString ==
    <<"\"", NonAscii, "a">>

\* a digit after a character outside ASCII
SrcNonAsciiDigit ==
    <<NonAscii, "1">>

\* a statement that parses, then tests::reports_error_on_unterminated_parentheses
SrcStmtThenParen ==
    <<"1", ";", " ", "(">>

\* the reserved words and an identifier that starts with one
SrcNil ==
    <<"n", "i", "l">>

SrcTrue ==
    <<"t", "r", "u", "e">>

SrcFalse ==
    <<"f", "a", "l", "s", "e">>

SrcNilx ==
    <<"n", "i", "l", "x">>

\* a number with a fraction, then a dot that no digit follows
SrcNumberThenDot ==
    <<"1", ".", "5", ".">>

\* a comment of four two-byte characters, then digits: start and current
\* count characters and the slice is cut in bytes, three bytes short of the
\* digits, so the text parsed is 1e5
SrcShiftedNumber ==
    <<"/", "/", NonAscii, NonAscii, NonAscii, NonAscii, "1", "e", "5", "\n", "1", "5", "1">>

Scenarios ==
    {SrcScenario,
     SrcShiftedNumber,
     SrcNumberThenDot,
     SrcNil,
     SrcTrue,
     SrcFalse,
     SrcNilx,
     SrcStmtThenParen,
     SrcPrintX,
     SrcPrecedence,
     SrcLeftAssoc,
     SrcStrictEq,
     SrcNotNil,
     SrcNotZero,
     SrcLoneParen,
     SrcUnterminated,
     SrcGrouping,
     SrcUnaryMinus,
     SrcScannerTest,
     SrcExprStmts,
     SrcMultiLine,
     SrcNonAsciiString,
     SrcNonAsciiDigit}

\* the characters of the short source texts
ScanAlphabet == {"1", ".", "+", "=", "!", "/", "\"", "\n", "a", "@", NonAscii}

RECURSIVE SeqsUpTo(_, _)
\* the sequences over S of length at most n
SeqsUpTo(S, n) ==
    IF n = 0 THEN {<<>>}
    ELSE LET shorter == SeqsUpTo(S, n - 1)
         IN  shorter \cup {Append(t, c) : t \in {u \in shorter : Len(u) = n - 1}, c \in S}

ShortSources == SeqsUpTo(ScanAlphabet, MaxLen)

\* the number literals of the operator chains
ChainDigits == {<<DigitChars[i + 1]>> : i \in 0..MaxDigit}

\* the spellings of the binary operators
BinaryOperators ==
    {<<"!", "=">>, <<"=", "=">>, <<">">>, <<">", "=">>, <<"<">>, <<"<", "=">>,
     <<"-">>, <<"+">>, <<"/">>, <<"*">>}

\* a op1 b op2 c, written with spaces as in the tests, with or without a final ';'
Chain(a, op1, b, op2, c, semi) ==
    a \o <<" ">> \o op1 \o <<" ">> \o b \o <<" ">> \o op2 \o <<" ">> \o c
      \o (IF semi THEN <<";">> ELSE <<>>)

ChainSources ==
    {Chain(a, op1, b, op2, c, semi) :
        a \in ChainDigits, op1 \in BinaryOperators, b \in ChainDigits,
        op2 \in BinaryOperators, c \in ChainDigits, semi \in BOOLEAN}

\* the characters of the one-character arms of scan_token (scanner.rs 83-92)
PunctuationChars == {"(", ")", "{", "}", ",", ".", "-", "+", ";", "*"}

PunctuationSources == SeqsUpTo(PunctuationChars, MaxLen)

\* the characters of the two-character arms of scan_token (scanner.rs 94-129)
OperatorChars == {"!", "=", "<", ">"}

\* operators next to each other and next to a digit
OperatorSources == SeqsUpTo(OperatorChars \cup {"1"}, MaxLen)

\* the characters of number lexemes: two digits and the dot
NumberChars == {"1", "5", "."}

NumberSources == SeqsUpTo(NumberChars, MaxLen)

Sources ==
    ShortSources \cup ChainSources \cup PunctuationSources \cup OperatorSources
        \cup NumberSources \cup Scenarios

\* an operator token as the scanner builds it, on the given line
OperatorToken(typ, line) == simple(typ, token_type_to_string(typ), line)

\* an identifier token
NameToken(name, line) == simple("Identifier", name, line)

\* the values the drawn expressions are built from
Values ==
    {Number(FromInt(0)), Number(FromInt(1)), String(<<>>), String(<<"a">>),
     Boolean(TRUE), Boolean(FALSE), Nil}

\* the operator types evaluate_binary_expr is drawn with; Bang is none of its arms
BinaryTypes ==
    {"Plus", "Minus", "Star", "Slash", "EqualEqual", "BangEqual",
     "Greater", "GreaterEqual", "Less", "LessEqual", "Bang"}

\* the expressions given to the expression evaluator
Expressions ==
    {Binary(Literal(l), OperatorToken(typ, 1), Literal(r)) :
        l \in Values, typ \in BinaryTypes, r \in Values}
    \cup {Unary(OperatorToken(typ, 1), Literal(v)) : typ \in unary_types, v \in Values}
    \cup {Unary(OperatorToken("Bang", 1), Grouping(Unary(OperatorToken(typ, 1), Literal(v)))) :
            typ \in unary_types, v \in Values}

NameX == <<"x">>

NameY == <<"y">>

\* the statements the drawn programs are built from
StatementPool ==
    {PrintStmt(Literal(Number(FromInt(1)))),
     PrintStmt(Literal(String(<<"a">>))),
     PrintStmt(Variable(NameToken(NameX, 1))),
     PrintStmt(Variable(NameToken(NameY, 2))),
     VarStmt(NameToken(NameX, 1), NoExpr),
     VarStmt(NameToken(NameX, 1), Literal(Number(FromInt(1)))),
     VarStmt(NameToken(NameY, 1), Variable(NameToken(NameX, 3))),
     ExprStmt(Assign(NameToken(NameX, 1), Literal(Boolean(TRUE)))),
     PrintStmt(Assign(NameToken(NameY, 1), Literal(Number(FromInt(1))))),
     ExprStmt(Assign(NameToken(NameX, 2), Variable(NameToken(NameY, 2)))),
     VarStmt(NameToken(NameX, 1), Assign(NameToken(NameY, 1), Literal(String(<<>>)))),
     ExprStmt(Unary(OperatorToken("Minus", 2), Variable(NameToken(NameX, 2)))),
     VarStmt(NameToken(NameX, 1),
             Binary(Assign(NameToken(NameY, 1), Literal(Number(FromInt(0)))),
                    OperatorToken("Plus", 4),
                    Literal(String(<<"a">>)))),
     VarStmt(NameToken(NameY, 1),
             Binary(Assign(NameToken(NameY, 1), Literal(Number(FromInt(0)))),
                    OperatorToken("Plus", 4),
                    Literal(String(<<"a">>))))}

Programs == SeqsUpTo(StatementPool, MaxStmts)

\* the lines typed at the prompt, as read_line returns them: an expression
\* statement, one that fails at run time, a lexical error, a parse error, an
\* expression without its ';' and an empty line
ReplLines ==
    {<<"1", ";", "\n">>,
     <<"-", "\"", "\"", ";", "\n">>,
     <<"@", "\n">>,
     <<"(", "\n">>,
     <<"1", "\n">>,
     <<"\n">>}

----------------------------------------------------------------------------
(* The state machine *)

NoParse == [ok |-> FALSE, panicked |-> FALSE, val |-> NoExpr, cur |-> 0]

NoResult == [status |-> "none", val |-> Nil]

\* Interpreter::new: nothing bound, nothing printed, no result yet
new_interpreter ==
    /\ ip = 0
    /\ environment = new_environment
    /\ output = <<>>
    /\ result = NoResult

\* Lox::new: no error yet; no line read, the prompt not ended
new_lox == [had_error |-> FALSE, lines |-> 0, ended |-> "no"]

\* main.rs 60-62 and 100-108 name the Ok value of parser.parse() expr and give
\* it to AstPrinter and to the expression evaluator, while Parser::parse of
\* parser.rs returns a Vec<Stmt>.  A Vec that holds one expression statement is
\* taken as that expression; for any other Vec those lines have no meaning and
\* the run rests where it is.
IsExpr(stmts) == Len(stmts) = 1 /\ stmts[1].kind = "Expr"

AsExpr(stmts) == stmts[1].expr

\* Lox::run_file(path): fs::read_to_string gives the contents and
\* Scanner::new(contents) is built, or it fails (main.rs 48-51 and 65)
InitRunFile ==
    /\ mode = "run_file"
    /\ \/ /\ phase = "scan"
          /\ \E source \in Sources : scanner = new_scanner(source)
       \/ /\ phase = "read_failed"
          /\ scanner = new_scanner(<<>>)
    /\ tokens = <<>>
    /\ parsed = NoParse
    /\ statements = <<>>
    /\ new_interpreter
    /\ lox = new_lox

\* the sources given to tests::parse_and_print: the sources of the tests
\* (parser.rs 378-416; those not among the scenarios are listed), the operator
\* chains and the scenarios
ParseAndPrintSources ==
    { <<"1", "2", "3">>,
      <<"1", " ", "+", " ", "2">>,
      <<"1", " ", "<", " ", "2">>,
      <<"1", " ", "=", "=", " ", "1">> } \cup ChainSources \cup Scenarios

\* tests::parse_and_print(source) of parser.rs: Scanner::new(source)
InitParseAndPrint ==
    /\ mode = "parse_and_print"
    /\ phase = "scan"
    /\ \E source \in ParseAndPrintSources : scanner = new_scanner(source)
    /\ tokens = <<>>
    /\ parsed = NoParse
    /\ statements = <<>>
    /\ new_interpreter
    /\ lox = new_lox

\* A call of Interpreter::interpret(&statements) of intrepreter.rs
InitInterpret ==
    /\ mode = "interpret"
    /\ phase = "parsed"
    /\ scanner = new_scanner(<<>>)
    /\ tokens = <<>>
    /\ parsed = NoParse
    /\ statements \in Programs
    /\ new_interpreter
    /\ lox = new_lox

\* A call of Interpreter::interpret(&expr) of expr_eval.rs
InitEvaluate ==
    /\ mode = "evaluate"
    /\ phase = "parsed_expr"
    /\ scanner = new_scanner(<<>>)
    /\ tokens = <<>>
    /\ \E e \in Expressions : parsed = POk(e, 0)
    /\ statements = <<>>
    /\ new_interpreter
    /\ lox = new_lox

\* Lox::run_prompt is entered (main.rs 72-74)
InitRepl ==
    /\ mode = "repl"
    /\ phase = "prompt"
    /\ scanner = new_scanner(<<>>)
    /\ tokens = <<>>
    /\ parsed = NoParse
    /\ statements = <<>>
    /\ new_interpreter
    /\ lox = new_lox

Init == InitRunFile \/ InitParseAndPrint \/ InitInterpret \/ InitEvaluate \/ InitRepl

\* One iteration of the while loop of Scanner::scan_tokens
ScanToken ==
    /\ phase = "scan"
    /\ ~is_at_end(scanner)
    /\ scanner' = scan_step(scanner)
    /\ phase' = IF scanner'.panicked THEN "scan_panic" ELSE "scan"
    /\ UNCHANGED <<mode, tokens, parsed, statements, ip, environment, output, result, lox>>

\* The end of Scanner::scan_tokens: push Eof, return the tokens
ScanTokensReturn ==
    /\ phase = "scan"
    /\ is_at_end(scanner)
    /\ scanner' = push_eof(scanner)
    /\ tokens' = scanner'.tokens
    /\ phase' = "scanned"
    /\ UNCHANGED <<mode, parsed, statements, ip, environment, output, result, lox>>

\* Lox::report: the message goes to stderr, had_error is set
report(l) == [l EXCEPT !.had_error = TRUE]

\* run_file: the file cannot be read, the failure is reported (main.rs 65-68)
RunFileReadError ==
    /\ mode = "run_file"
    /\ phase = "read_failed"
    /\ lox' = report(lox)
    /\ phase' = "read_reported"
    /\ UNCHANGED <<mode, scanner, tokens, parsed, statements, ip, environment, output, result>>

\* run_file: the scanner reported an error; had_error is set and nothing is
\* parsed (main.rs 54-55)
RunFileScanError ==
    /\ mode = "run_file"
    /\ phase = "scanned"
    /\ scanner.has_error
    /\ lox' = [lox EXCEPT !.had_error = TRUE]
    /\ phase' = "returned"
    /\ UNCHANGED <<mode, scanner, tokens, parsed, statements, ip, environment, output, result>>

\* run_file parsing the tokens of every finished scan, has_error or not
ParseWhateverScanned ==
    /\ mode = "run_file"
    /\ phase = "scanned"
    /\ parsed' = parse(tokens)
    /\ IF ~parsed'.ok
       THEN /\ phase' = IF parsed'.panicked THEN "literal_panic" ELSE "unwrap_panic"
            /\ UNCHANGED <<statements, output>>
       ELSE /\ statements' = parsed'.val
            /\ IF IsExpr(parsed'.val)
               THEN /\ output' = Append(output, print_ast(AsExpr(parsed'.val)))
                    /\ phase' = "returned"
               ELSE /\ output' = output
                    /\ phase' = "not_an_expr"
    /\ UNCHANGED <<mode, scanner, tokens, ip, environment, result, lox>>

\* run_file after a scan without error: Parser::new(tokens).parse().unwrap()
\* panics on a ParseError; the value is printed by AstPrinter and run_file
\* returns (main.rs 56-63)
Parse ==
    /\ mode = "run_file"
    /\ phase = "scanned"
    /\ ~scanner.has_error
    /\ parsed' = parse(tokens)
    /\ IF ~parsed'.ok
       THEN /\ phase' = IF parsed'.panicked THEN "literal_panic" ELSE "unwrap_panic"
            /\ UNCHANGED <<statements, output>>
       ELSE /\ statements' = parsed'.val
            /\ IF IsExpr(parsed'.val)
               THEN /\ output' = Append(output, print_ast(AsExpr(parsed'.val)))
                    /\ phase' = "returned"
               ELSE /\ output' = output
                    /\ phase' = "not_an_expr"
    /\ UNCHANGED <<mode, scanner, tokens, ip, environment, result, lox>>

\* tests::parse_and_print after the scan: the assert on has_error panics, or
\* Parser::new(tokens).parse_expr().expect(..) panics on a ParseError, or the
\* expression is printed by AstPrinter and the text is the value returned,
\* kept in output (parser.rs 359-376)
ParseExpr ==
    /\ mode = "parse_and_print"
    /\ phase = "scanned"
    /\ IF scanner.has_error
       THEN /\ parsed' = parsed
            /\ output' = output
            /\ phase' = "assert_panic"
       ELSE /\ parsed' = parse_expr(tokens)
            /\ IF parsed'.ok
               THEN /\ output' = Append(output, print_ast(parsed'.val))
                    /\ phase' = "parsed_expr"
               ELSE /\ output' = output
                    /\ phase' = IF parsed'.panicked THEN "literal_panic" ELSE "expect_panic"
    /\ UNCHANGED <<mode, scanner, tokens, statements, ip, environment, result, lox>>

\* Interpreter::interpret(&expr) of expr_eval.rs on the parsed expression
EvaluateExpr ==
    /\ mode = "evaluate"
    /\ phase = "parsed_expr"
    /\ \E r \in {evaluate(parsed.val, environment)} :
           /\ result' = [status |-> IF r.ok THEN "value" ELSE "error", val |-> r.val]
           /\ environment' = r.env
    /\ phase' = "evaluated"
    /\ UNCHANGED <<mode, scanner, tokens, parsed, statements, ip, output, lox>>

\* the for loop of interpret without the ?: a failed statement is recorded and
\* the loop goes on with the next one
ExecuteStatementKeepGoing ==
    /\ mode = "interpret"
    /\ phase \in {"parsed", "exec"}
    /\ ip < Len(statements)
    /\ \E r \in {accept_mut(statements[ip + 1], environment, output)} :
           /\ environment' = r.env
           /\ output' = r.out
           /\ ip' = ip + 1
           /\ phase' = "exec"
           /\ result' = IF r.ok THEN result ELSE [status |-> "error", val |-> r.err]
    /\ UNCHANGED <<mode, scanner, tokens, parsed, statements, lox>>

\* One iteration of the for loop of Interpreter::interpret: stmt.accept_mut(self)?
ExecuteStatement ==
    /\ mode = "interpret"
    /\ phase \in {"parsed", "exec"}
    /\ ip < Len(statements)
    /\ \E r \in {accept_mut(statements[ip + 1], environment, output)} :
           /\ environment' = r.env
           /\ output' = r.out
           /\ IF r.ok
              THEN /\ ip' = ip + 1
                   /\ phase' = "exec"
                   /\ result' = result
              ELSE /\ ip' = ip
                   /\ phase' = "runtime_error"
                   /\ result' = [status |-> "error", val |-> r.err]
    /\ UNCHANGED <<mode, scanner, tokens, parsed, statements, lox>>

\* The end of Interpreter::interpret: Ok(())
InterpretReturn ==
    /\ mode = "interpret"
    /\ phase \in {"parsed", "exec"}
    /\ ip = Len(statements)
    /\ phase' = "done"
    /\ result' = [status |-> "ok", val |-> Nil]
    /\ UNCHANGED <<mode, scanner, tokens, parsed, statements, ip, environment, output, lox>>

\* run_prompt, top of the loop: the prompt is written; with had_error set the
\* loop is left (main.rs 75-86)
ReplBreak ==
    /\ mode = "repl"
    /\ phase = "prompt"
    /\ lox.had_error
    /\ lox' = [lox EXCEPT !.ended = "had_error"]
    /\ phase' = "repl_end"
    /\ UNCHANGED <<mode, scanner, tokens, parsed, statements, ip, environment, output, result>>

\* run_prompt: flushing stdout or read_line fails; the failure is reported and
\* the loop is left (main.rs 76-86 and 115-119)
ReplIoFailure ==
    /\ mode = "repl"
    /\ phase = "prompt"
    /\ lox' = [report(lox) EXCEPT !.ended = "io"]
    /\ phase' = "repl_end"
    /\ UNCHANGED <<mode, scanner, tokens, parsed, statements, ip, environment, output, result>>

\* run_prompt: read_line returns Ok(0), the end of input (main.rs 90)
ReplEndOfInput ==
    /\ mode = "repl"
    /\ phase = "prompt"
    /\ ~lox.had_error
    /\ lox' = [lox EXCEPT !.ended = "eof"]
    /\ phase' = "repl_end"
    /\ UNCHANGED <<mode, scanner, tokens, parsed, statements, ip, environment, output, result>>

\* run_prompt: read_line returns a line; Scanner::new(input) (main.rs 88-92).
\* The scanner, tokens, parser and interpreter of the line before are dropped.
ReplReadLine ==
    /\ mode = "repl"
    /\ phase = "prompt"
    /\ ~lox.had_error
    /\ lox.lines < MaxLines
    /\ \E input \in ReplLines : scanner' = new_scanner(input)
    /\ tokens' = <<>>
    /\ parsed' = NoParse
    /\ ip' = 0
    /\ environment' = new_environment
    /\ result' = NoResult
    /\ lox' = [lox EXCEPT !.lines = @ + 1]
    /\ phase' = "scan"
    /\ UNCHANGED <<mode, statements, output>>

\* run_prompt: the scanner reported an error, the line is given up and the
\* loop goes on (main.rs 95-98 and 114)
ReplSkipLine ==
    /\ mode = "repl"
    /\ phase = "scanned"
    /\ scanner.has_error
    /\ phase' = "prompt"
    /\ UNCHANGED <<mode, scanner, tokens, parsed, statements, ip, environment, output, result, lox>>

\* run_prompt: the line is parsed when the scanner reported no error; a parse
\* error is reported and the process exits with 65, the value of parse() is
\* printed by AstPrinter (main.rs 98-105)
ReplParse ==
    /\ mode = "repl"
    /\ phase = "scanned"
    /\ ~scanner.has_error
    /\ parsed' = parse(tokens)
    /\ IF ~parsed'.ok
       THEN /\ output' = output
            /\ lox' = IF parsed'.panicked THEN lox ELSE [report(lox) EXCEPT !.ended = "exit65"]
            /\ phase' = IF parsed'.panicked THEN "literal_panic" ELSE "exit"
       ELSE /\ lox' = lox
            /\ IF IsExpr(parsed'.val)
               THEN /\ output' = Append(output, print_ast(AsExpr(parsed'.val)))
                    /\ phase' = "repl_parsed"
               ELSE /\ output' = output
                    /\ phase' = "not_an_expr"
    /\ UNCHANGED <<mode, scanner, tokens, statements, ip, environment, result>>

\* run_prompt: Interpreter::new().interpret(&expr); the value is printed, an
\* error is reported; then the loop goes on (main.rs 107-113)
ReplEvaluate ==
    /\ mode = "repl"
    /\ phase = "repl_parsed"
    /\ \E r \in {evaluate(AsExpr(parsed.val), new_environment)} :
           /\ result' = [status |-> IF r.ok THEN "value" ELSE "error", val |-> r.val]
           /\ environment' = r.env
           /\ output' = IF r.ok THEN Append(output, literal_to_string(r.val)) ELSE output
           /\ lox' = IF r.ok THEN lox ELSE report(lox)
    /\ phase' = "prompt"
    /\ UNCHANGED <<mode, scanner, tokens, parsed, statements, ip>>

Next ==
    \/ ReplBreak
    \/ ReplIoFailure
    \/ ReplEndOfInput
    \/ ReplReadLine
    \/ ReplSkipLine
    \/ ReplParse
    \/ ReplEvaluate
    \/ ScanToken
    \/ ScanTokensReturn
    \/ RunFileReadError
    \/ RunFileScanError
    \/ Parse
    \/ ParseExpr
    \/ EvaluateExpr
    \/ ExecuteStatement
    \/ InterpretReturn

Spec == Init /\ [][Next]_vars

----------------------------------------------------------------------------
(* Parser::parse alone, on any token sequence that ends with Eof, one *)
(* iteration of its while loop at a time                              *)

\* one token of each kind of TokenType the statement and expression rules look at
TokenPool ==
    {with_literal("Number", <<"1">>, Number(FromInt(1)), 1),
     simple("Number", <<"1">>, 1),
     simple("Identifier", NameX, 1),
     simple("Plus", <<"+">>, 1),
     simple("Bang", <<"!">>, 1),
     simple("Equal", <<"=">>, 1),
     simple("LeftParen", <<"(">>, 1),
     simple("RightParen", <<")">>, 1),
     simple("SemiColon", <<";">>, 1),
     simple("Eof", <<>>, 1)}

\* the token sequences given to Parser::new: any tokens, then Eof
TokenSequences == {Append(toks, simple("Eof", <<>>, 1)) : toks \in SeqsUpTo(TokenPool, MaxTokens)}

\* Parser::new(tokens) and the empty Vec of parse: current is 0
InitParse ==
    /\ mode = "parse"
    /\ phase = "parsing"
    /\ scanner = new_scanner(<<>>)
    /\ tokens \in TokenSequences
    /\ parsed = POk(<<>>, 0)
    /\ statements = <<>>
    /\ new_interpreter
    /\ lox = new_lox

\* One iteration of the while loop of Parser::parse:
\* statements.push(self.declaration()?)
ParseDeclaration ==
    /\ mode = "parse"
    /\ phase = "parsing"
    /\ ~parser_is_at_end(tokens, parsed.cur)
    /\ LET stmt == declaration(tokens, parsed.cur)
       IN  /\ parsed' = IF stmt.ok THEN POk(Append(parsed.val, stmt.val), stmt.cur) ELSE stmt
           /\ phase' = IF stmt.ok THEN "parsing"
                       ELSE IF stmt.panicked THEN "literal_panic"
                       ELSE "parse_failed"
    /\ UNCHANGED <<mode, scanner, tokens, statements, ip, environment, output, result, lox>>

\* The loop of Parser::parse ends at the end-of-input token: Ok(statements)
ParseReturn ==
    /\ mode = "parse"
    /\ phase = "parsing"
    /\ parser_is_at_end(tokens, parsed.cur)
    /\ phase' = "parse_done"
    /\ statements' = parsed.val
    /\ UNCHANGED <<mode, scanner, tokens, parsed, ip, environment, output, result, lox>>

NextParse == ParseDeclaration \/ ParseReturn

SpecParse == InitParse /\ [][NextParse]_vars

----------------------------------------------------------------------------
(* Reading an operator chain back from its source text *)

RECURSIVE Fields(_, _)
\* the fields of a text separated by single spaces; field is the one being read
Fields(text, field) ==
    IF text = <<>> THEN <<field>>
    ELSE IF Head(text) = " " THEN <<field>> \o Fields(Tail(text), <<>>)
    ELSE Fields(Tail(text), Append(field, Head(text)))

WithoutSemi(text) ==
    IF text # <<>> /\ text[Len(text)] = ";" THEN SubSeq(text, 1, Len(text) - 1) ELSE text

EndsWithSemi(text) == text # <<>> /\ text[Len(text)] = ";"

\* the fields a, op1, b, op2, c of a source of the shape a op1 b op2 c
ChainFields(text) == Fields(WithoutSemi(text), <<>>)

IsChain(text) ==
    LET f == ChainFields(text)
    IN  /\ Len(f) = 5
        /\ f[1] \in ChainDigits /\ f[3] \in ChainDigits /\ f[5] \in ChainDigits
        /\ f[2] \in BinaryOperators /\ f[4] \in BinaryOperators

\* the token type of an operator spelling
OperatorType(op) ==
    CASE op = <<"!", "=">> -> "BangEqual"
      [] op = <<"=", "=">> -> "EqualEqual"
      [] op = <<">">> -> "Greater"
      [] op = <<">", "=">> -> "GreaterEqual"
      [] op = <<"<">> -> "Less"
      [] op = <<"<", "=">> -> "LessEqual"
      [] op = <<"-">> -> "Minus"
      [] op = <<"+">> -> "Plus"
      [] op = <<"/">> -> "Slash"
      [] OTHER -> "Star"

\* the precedence level of an operator spelling, lowest first
Level(op) ==
    CASE OperatorType(op) \in equality_types -> 1
      [] OperatorType(op) \in comparison_types -> 2
      [] OperatorType(op) \in term_types -> 3
      [] OTHER -> 4

IsNumberLiteral(e, digits) ==
    e.kind = "Literal" /\ e.value = Number(F64(DigitsValue(digits), 1, FALSE))

IsBinaryOf(e, op) == e.kind = "Binary" /\ e.operator.typ = OperatorType(op)

\* Binary(op1, a, Binary(op2, b, c))
GroupsRight(e, f) ==
    /\ IsBinaryOf(e, f[2])
    /\ IsNumberLiteral(e.left, f[1])
    /\ IsBinaryOf(e.right, f[4])
    /\ IsNumberLiteral(e.right.left, f[3])
    /\ IsNumberLiteral(e.right.right, f[5])

\* Binary(op2, Binary(op1, a, b), c)
GroupsLeft(e, f) ==
    /\ IsBinaryOf(e, f[4])
    /\ IsBinaryOf(e.left, f[2])
    /\ IsNumberLiteral(e.left.left, f[1])
    /\ IsNumberLiteral(e.left.right, f[3])
    /\ IsNumberLiteral(e.right, f[5])

StmtPhases == {"parsed", "exec", "done", "runtime_error"}

\* the phases of run_file after parse() returned Ok
ParsedPhases == {"returned", "not_an_expr"}

\* the sources are scanned by run_file and by tests::parse_and_print
Scanning == mode \in {"run_file", "parse_and_print"}

\* the chain scans and parses, as an expression (tests::parse_and_print) and,
\* with its ';', as a statement (run_file)
ChainParses ==
    /\ phase \notin {"scan_panic", "assert_panic", "expect_panic"}
    /\ ~scanner.has_error
    /\ EndsWithSemi(scanner.source) => phase # "unwrap_panic"
    /\ (mode = "run_file" /\ phase \in ParsedPhases) => (phase = "returned" /\ IsExpr(statements))

\* the expression the run has parsed, in the phases that have one
HasParsedTree ==
    \/ mode = "parse_and_print" /\ phase = "parsed_expr"
    \/ mode = "run_file" /\ phase = "returned" /\ parsed.ok

ParsedTree == IF mode = "parse_and_print" THEN parsed.val ELSE AsExpr(statements)

----------------------------------------------------------------------------
(* The claims *)

\* C1. Operator precedence: every source a + b * c or a - b / c (a, b, c number
\* literals) scans and parses to Binary(+/-, a, Binary(*//, b, c)): the
\* multiplicative operator is the right child of the additive one.  The source
\* 1 + 2 * 3 prints as (+ 1 (* 2 3)) and evaluates to 7.
C1_Precedence ==
    Scanning =>
        /\ ( /\ IsChain(scanner.source)
             /\ Level(ChainFields(scanner.source)[2]) = 3
             /\ Level(ChainFields(scanner.source)[4]) = 4 )
           => /\ ChainParses
              /\ HasParsedTree => GroupsRight(ParsedTree, ChainFields(scanner.source))
        /\ (mode = "parse_and_print" /\ scanner.source = SrcPrecedence) =>
              /\ phase \in {"scan", "scanned", "parsed_expr"}
              /\ phase = "parsed_expr" =>
                    /\ output
                         = << <<"(", "+", " ", "1", " ", "(", "*", " ", "2", " ", "3", ")", ")">> >>
                    /\ evaluate(parsed.val, new_environment).ok
                    /\ evaluate(parsed.val, new_environment).val = Number(FromInt(7))

\* 1 + 2 * 3 has been scanned and parsed by tests::parse_and_print
C1_Witness ==
    /\ mode = "parse_and_print"
    /\ scanner.source = SrcPrecedence
    /\ phase = "parsed_expr"
    /\ parsed.val.kind = "Binary"
    /\ parsed.val.right.kind = "Binary"

\* C2. Left-associativity: every chain a op1 b op2 c whose operators belong to
\* the same precedence level (equality, comparison, term or factor) parses to
\* Binary(op2, Binary(op1, a, b), c).  The source 1 - 2 - 3 evaluates to -4.
C2_LeftAssociative ==
    Scanning =>
        /\ ( /\ IsChain(scanner.source)
             /\ Level(ChainFields(scanner.source)[2]) = Level(ChainFields(scanner.source)[4]) )
           => /\ ChainParses
              /\ HasParsedTree => GroupsLeft(ParsedTree, ChainFields(scanner.source))
        /\ (mode = "parse_and_print" /\ scanner.source = SrcLeftAssoc) =>
              /\ phase \in {"scan", "scanned", "parsed_expr"}
              /\ phase = "parsed_expr" =>
                    /\ evaluate(parsed.val, new_environment).ok
                    /\ evaluate(parsed.val, new_environment).val = Number(FromInt(-4))

\* 1 - 2 - 3 has been scanned and parsed by tests::parse_and_print
C2_Witness ==
    /\ mode = "parse_and_print"
    /\ scanner.source = SrcLeftAssoc
    /\ phase = "parsed_expr"
    /\ parsed.val.kind = "Binary"
    /\ parsed.val.left.kind = "Binary"

\* C3. Equality is type-strict: == and != yield a Boolean only when both
\* operands are Number, both String or both Boolean; every other pair of operand
\* variants (cross-type, or with Nil, also Nil with Nil) is a runtime error and
\* never the value false.
C3_StrictEquality ==
    /\ ( /\ mode = "evaluate"
         /\ phase = "evaluated"
         /\ parsed.val.kind = "Binary"
         /\ parsed.val.operator.typ \in equality_types )
       => LET l == parsed.val.left.value
              r == parsed.val.right.value
          IN  IF l.t = r.t /\ l.t \in {"Number", "String", "Boolean"}
              THEN result.status = "value" /\ result.val.t = "Boolean"
              ELSE result.status = "error"
    /\ (mode = "parse_and_print" /\ scanner.source = SrcStrictEq /\ phase = "parsed_expr")
       => ~evaluate(parsed.val, new_environment).ok

\* nil == nil has been evaluated, to a runtime error
C3_Witness ==
    /\ mode = "evaluate"
    /\ phase = "evaluated"
    /\ parsed.val.kind = "Binary"
    /\ parsed.val.operator.typ = "EqualEqual"
    /\ parsed.val.left.value = Nil
    /\ parsed.val.right.value = Nil
    /\ result.status = "error"

RECURSIVE RunPrefix(_, _)
\* the first k statements executed in order from a new interpreter, stopping at
\* the first that fails
RunPrefix(stmts, k) ==
    IF k = 0 THEN SOk(new_environment, <<>>)
    ELSE Try(RunPrefix(stmts, k - 1), LAMBDA pre : accept_mut(stmts[k], pre.env, pre.out))

\* C4. Undefined variable: scanning, parsing and interpreting a program that
\* references a name never declared or assigned (print x;) ends in the runtime
\* error 'undefined variable' with the line of the referencing token; it is
\* never a parse error and never a default value.
C4_UndefinedVariableClaim ==
    (mode = "run_file" /\ scanner.source = SrcPrintX) =>
        /\ phase # "scan_panic"
        /\ ~scanner.has_error
        /\ phase # "unwrap_panic"
        /\ phase \in ParsedPhases =>
              /\ Len(statements) = 1
              /\ ~accept_mut(statements[1], new_environment, <<>>).ok
              /\ accept_mut(statements[1], new_environment, <<>>).err.message[1]
                     = "Undefined variable"
              /\ accept_mut(statements[1], new_environment, <<>>).err.line = 1

\* C5. End-to-end scenario: var a = 1; var b = 2; print a + b; scans without
\* error to exactly 13 tokens with the end-of-input token, parses to exactly 3
\* statements, and interpreting them prints 3 and returns Ok.
C5_ScenarioClaim ==
    (mode = "run_file" /\ scanner.source = SrcScenario) =>
        /\ phase # "scan_panic"
        /\ ~scanner.has_error
        /\ phase = "scanned" => Len(tokens) = 13
        /\ phase # "unwrap_panic"
        /\ phase \in ParsedPhases =>
              /\ Len(statements) = 3
              /\ RunPrefix(statements, 3).ok
              /\ RunPrefix(statements, 3).out = << <<"3">> >>

\* C6. Runtime errors are fail-fast: when statement i of a sequence fails,
\* interpret returns that error and no statement after i is executed (no later
\* output, no later binding), while the statements before i have taken effect.
C6_FailFast ==
    (mode = "interpret" /\ phase \in StmtPhases) =>
        /\ RunPrefix(statements, ip).ok
        /\ output = RunPrefix(statements, ip).out
        /\ phase # "runtime_error" =>
              /\ environment = RunPrefix(statements, ip).env
              /\ result.status # "error"
        /\ phase = "done" => ip = Len(statements)
        /\ phase = "runtime_error" =>
              /\ ip < Len(statements)
              /\ ~RunPrefix(statements, ip + 1).ok
              /\ result = [status |-> "error", val |-> RunPrefix(statements, ip + 1).err]
              /\ environment = RunPrefix(statements, ip + 1).env

\* a statement failed after one that printed and before one that never ran
C6_Witness ==
    /\ mode = "interpret"
    /\ phase = "runtime_error"
    /\ ip >= 1
    /\ ip + 1 < Len(statements)
    /\ output # <<>>

\* C7. Truthiness and logical not: unary ! never fails, whatever the operand
\* value; it yields true exactly when the operand is Nil or Boolean(false), and
\* false for every other value, Number 0 and the empty string included.
C7_LogicalNot ==
    /\ ( /\ mode = "evaluate"
         /\ phase = "evaluated"
         /\ parsed.val.kind = "Unary"
         /\ parsed.val.operator.typ = "Bang"
         /\ parsed.val.right.kind = "Literal" )
       => LET v == parsed.val.right.value
          IN  /\ result.status = "value"
              /\ result.val = Boolean(v.t = "Nil" \/ (v.t = "Boolean" /\ ~v.b))
    /\ (mode = "parse_and_print" /\ scanner.source = SrcNotZero /\ phase = "parsed_expr")
       => /\ evaluate(parsed.val, new_environment).ok
          /\ evaluate(parsed.val, new_environment).val = Boolean(FALSE)

\* !0 has been evaluated, to false
C7_Witness ==
    /\ mode = "evaluate"
    /\ phase = "evaluated"
    /\ parsed.val.kind = "Unary"
    /\ parsed.val.operator.typ = "Bang"
    /\ parsed.val.right.kind = "Literal"
    /\ parsed.val.right.value = Number(FromInt(0))
    /\ result.val = Boolean(FALSE)

NewlinesOf(text) == Cardinality({i \in 1..Len(text) : text[i] = "\n"})

\* the phases of run_file in which scan_tokens has returned
ScannedPhases == {"scanned", "returned", "unwrap_panic", "not_an_expr"}

\* the tokens one scan returns hold exactly one end-of-input token, the last
\* one, and none while the scan goes on
OneEofLast ==
    mode = "run_file" =>
        /\ phase = "scan" => \A i \in 1..Len(scanner.tokens) : scanner.tokens[i].typ # "Eof"
        /\ phase \in ScannedPhases =>
              /\ tokens = scanner.tokens
              /\ Len(tokens) >= 1
              /\ tokens[Len(tokens)].typ = "Eof"
              /\ \A i \in 1..(Len(tokens) - 1) : tokens[i].typ # "Eof"

\* C8. For every source text, with or without lexical errors, the tokens one
\* scan returns hold exactly one end-of-input token, it is the last one, and it
\* is tagged with the line the scan ended on.
C8_SingleEofClaim ==
    /\ OneEofLast
    /\ (mode = "run_file" /\ phase \in ScannedPhases) =>
          tokens[Len(tokens)].line = 1 + NewlinesOf(scanner.source)

\* C9. Lexical errors are non-fatal and sticky: an unexpected character sets
\* has_error and scanning goes on, so the scan is never cut short after an
\* error; the flag is set exactly when an error was reported and stays set.
C9_NonFatalClaim ==
    mode = "run_file" =>
        /\ scanner.has_error => phase # "scan_panic"
        /\ scanner.has_error <=> scanner.errors # <<>>

CountOf(text, c) == Cardinality({i \in 1..Len(text) : text[i] = c})

\* a text without comment whose last quote opens a string that is never closed
EndsUnterminated(text) == CountOf(text, "/") = 0 /\ CountOf(text, "\"") % 2 = 1

\* the text before the last quote
BeforeLastQuote(text) ==
    SubSeq(text, 1, (CHOOSE i \in 1..Len(text) :
                        text[i] = "\"" /\ \A j \in (i + 1)..Len(text) : text[j] # "\"") - 1)

\* the types and payloads of a token sequence
Payloads(toks) == [i \in 1..Len(toks) |-> <<toks[i].typ, toks[i].literal>>]

\* C10. Unterminated string: when the source holds an opening quote with no
\* closing quote before the end of input, the scan sets has_error and emits no
\* String token for it: the tokens returned are those scanned before the
\* opening quote, followed by the end-of-input token.
C10_UnterminatedClaim ==
    (mode = "run_file" /\ phase = "scanned" /\ EndsUnterminated(scanner.source)) =>
        /\ scanner.has_error
        /\ Payloads(tokens) = Payloads(scan_tokens(BeforeLastQuote(scanner.source)).tokens)

\* C11. The lexical error for an unterminated string is reported at the line
\* on which the string began (the line of its opening quote), also when the
\* content of the unterminated string spans one or more newlines.  The string
\* that reaches the end of input opens at the last quote of the source.
C11_UnterminatedLineClaim ==
    (mode = "run_file" /\ phase = "scanned") =>
        \A i \in 1..Len(scanner.errors) :
            scanner.errors[i].message = "Unterminated string."
                => scanner.errors[i].line = 1 + NewlinesOf(BeforeLastQuote(scanner.source))

\* C12. Parse errors are fail-fast: where a grammar rule cannot find an
\* expected token, parse returns a ParseError whose token is the token at the
\* parser's current position, returns no statements (not even those parsed
\* before the error) and consumes no further token; a parse that returns
\* statements has read all tokens up to the end-of-input token.  A lone ( yields
\* an error.
C12_ParseFailFast ==
    mode = "run_file" =>
        /\ phase = "unwrap_panic" =>
              /\ ~parsed.ok
              /\ parsed.cur < Len(tokens)
              /\ parsed.val.token = tokens[parsed.cur + 1]
              /\ statements = <<>>
              /\ output = <<>>
        /\ (phase \in ParsedPhases /\ ~scanner.has_error) =>
              /\ parsed.ok
              /\ parsed.cur = Len(tokens) - 1
              /\ statements = parsed.val
        /\ scanner.source \in {SrcLoneParen, SrcStmtThenParen} =>
              /\ phase \in {"scan", "scanned", "unwrap_panic"}
              /\ phase = "unwrap_panic" => parsed.val.token.typ = "Eof"

\* parse has failed after a statement that parsed: the error is at a later
\* token and no statement is returned
C12_Witness ==
    /\ mode = "run_file"
    /\ phase = "unwrap_panic"
    /\ parsed.cur >= 2
    /\ parsed.val.token = tokens[parsed.cur + 1]
    /\ statements = <<>>

\* C13. Pipeline gating: in the file runner and in the prompt, after a scan
\* that finished with has_error set neither the parser nor the evaluator runs
\* on its tokens; the parser runs only on the tokens of a finished scan whose
\* has_error is false, and the evaluator only after a successful parse.
C13_PipelineGating ==
    mode \in {"run_file", "repl"} =>
        /\ (parsed.ok \/ phase \in {"unwrap_panic", "not_an_expr", "exit", "repl_parsed"}) =>
              /\ ~scanner.has_error
              /\ ~scanner.panicked
              /\ tokens # <<>>
              /\ tokens = scanner.tokens
        /\ result # NoResult => (parsed.ok /\ IsExpr(parsed.val))
        /\ scanner.has_error =>
              /\ ~parsed.ok /\ parsed.cur = 0
              /\ result = NoResult
              /\ phase \in {"scan", "scan_panic", "scanned", "returned", "prompt", "repl_end"}
              /\ phase = "returned" => (lox.had_error /\ output = <<>>)

\* the prompt has scanned a line with a lexical error and is back at the
\* prompt: the line was neither parsed nor evaluated
C13_Witness ==
    /\ mode = "repl"
    /\ phase = "prompt"
    /\ lox.lines >= 1
    /\ scanner.has_error
    /\ tokens # <<>>
    /\ ~parsed.ok
    /\ result = NoResult

\* C14. Continuation of the prompt: a line that fails (lexical error, parse
\* error or runtime error) does not end the session; after the error is
\* reported the loop goes on to the next line, and it ends only at the end of
\* input or on an I/O failure.
C14_ReplContinuesClaim ==
    mode = "repl" =>
        /\ phase # "exit"
        /\ phase = "repl_end" => lox.ended \in {"eof", "io"}

\* C15. Errors are values: for every source text the scan returns to its
\* caller (tokens and the error flag), parse returns Ok or a ParseError and
\* interpret Ok or a RuntimeError; no input makes a stage panic, also not
\* source text with characters outside ASCII in or out of string literals.
C15_NoPanicClaim ==
    /\ ~scanner.panicked
    /\ phase \in {"scanned", "unwrap_panic", "expect_panic"} => tokens = scanner.tokens
    /\ phase \in {"unwrap_panic", "expect_panic"} => ~parsed.ok
    /\ phase = "runtime_error" => result.status = "error"

\* the display form the specification gives a value: a String by its characters
\* only, a Number as the host prints it, a Boolean as true or false, Nil as nil
DisplayForm(v) ==
    CASE v.t = "String" -> v.str
      [] v.t = "Number" -> f64_to_string(v.num)
      [] v.t = "Boolean" -> (IF v.b THEN <<"t", "r", "u", "e">> ELSE <<"f", "a", "l", "s", "e">>)
      [] OTHER -> <<"n", "i", "l">>

\* C16. Print display form: a print statement writes exactly one line holding
\* the display form of the value: a String unquoted (its characters only), a
\* Boolean as true or false and Nil as nil.
C16_PrintDisplayClaim ==
    ( /\ mode = "interpret"
      /\ phase \in {"exec", "done", "runtime_error"}
      /\ ip >= 1
      /\ statements[ip].kind = "Print" )
    => output = Append(RunPrefix(statements, ip - 1).out,
                       DisplayForm(evaluate(statements[ip].expr,
                                            RunPrefix(statements, ip - 1).env).val))

RECURSIVE HasAssign(_)
\* whether an expression holds an assignment
HasAssign(e) ==
    CASE e.kind = "Assign" -> TRUE
      [] e.kind = "Binary" -> HasAssign(e.left) \/ HasAssign(e.right)
      [] e.kind = "Unary" -> HasAssign(e.right)
      [] e.kind = "Grouping" -> HasAssign(e.expr)
      [] OTHER -> FALSE

\* statement ip is a declaration that has just been executed successfully
DeclarationExecuted ==
    /\ mode = "interpret"
    /\ phase \in {"exec", "done"}
    /\ ip >= 1
    /\ statements[ip].kind = "Variable"

\* the environment the declaration was executed in
EnvBefore == RunPrefix(statements, ip - 1).env

\* the environment after the initializer of the declaration was evaluated
EnvAfterInitializer ==
    IF statements[ip].initializer = NoExpr THEN EnvBefore
    ELSE evaluate(statements[ip].initializer, EnvBefore).env

\* the value the declaration binds
DeclaredValue ==
    IF statements[ip].initializer = NoExpr THEN Nil
    ELSE evaluate(statements[ip].initializer, EnvBefore).val

\* env and base bind the same names to the same values, but for the name n
SameBut(env, base, n) ==
    \A m \in ((DOMAIN env) \cup (DOMAIN base)) \ {n} :
        m \in DOMAIN env /\ m \in DOMAIN base /\ env[m] = base[m]

\* C17 as the specification states it.  Variable declaration post-state: after
\* a declaration of name n executes successfully, the environment maps n to the
\* value of its initializer, or to Nil without initializer, replacing any
\* earlier binding of n; the bindings of all other names are unchanged.
C17_DeclarationFrameClaim ==
    DeclarationExecuted =>
        /\ statements[ip].name.lexeme \in DOMAIN environment
        /\ environment[statements[ip].name.lexeme] = DeclaredValue
        /\ SameBut(environment, EnvBefore, statements[ip].name.lexeme)

\* C17, amended.  After a declaration of name n executes successfully, the
\* environment maps n to the value of its initializer, or to Nil without
\* initializer, replacing any earlier binding of n; the bindings of all other
\* names are those the evaluation of the initializer left, which are the
\* bindings from before the declaration when the initializer holds no
\* assignment.
C17_DeclarationPostState ==
    DeclarationExecuted =>
        /\ statements[ip].name.lexeme \in DOMAIN environment
        /\ environment[statements[ip].name.lexeme] = DeclaredValue
        /\ SameBut(environment, EnvAfterInitializer, statements[ip].name.lexeme)
        /\ (statements[ip].initializer = NoExpr \/ ~HasAssign(statements[ip].initializer))
              => EnvAfterInitializer = EnvBefore

\* a declaration without initializer has replaced an earlier binding of its
\* name by Nil
C17_Witness ==
    /\ DeclarationExecuted
    /\ statements[ip].initializer = NoExpr
    /\ statements[ip].name.lexeme \in DOMAIN EnvBefore
    /\ EnvBefore[statements[ip].name.lexeme] # Nil
    /\ environment[statements[ip].name.lexeme] = Nil

\* statement ip is an expression or print statement whose expression is an
\* assignment, and it has just been executed successfully
AssignExecuted ==
    /\ mode = "interpret"
    /\ phase \in {"exec", "done"}
    /\ ip >= 1
    /\ statements[ip].kind \in {"Expr", "Print"}
    /\ statements[ip].expr.kind = "Assign"

\* the interpreter has failed on a statement whose expression is an assignment
AssignFailed ==
    /\ mode = "interpret"
    /\ phase = "runtime_error"
    /\ statements[ip + 1].kind \in {"Expr", "Print"}
    /\ statements[ip + 1].expr.kind = "Assign"

\* C18. Assignment semantics: evaluating an Assign node for name n never fails
\* because n is unbound (it fails only when its right-hand expression fails);
\* when the right-hand expression evaluates to v, the environment maps n to v
\* afterwards, the binding being created if n was absent, and the assignment
\* expression itself yields v.
C18_Assignment ==
    /\ AssignExecuted =>
          /\ evaluate(statements[ip].expr.value, EnvBefore).ok
          /\ statements[ip].expr.name.lexeme \in DOMAIN environment
          /\ environment[statements[ip].expr.name.lexeme]
                = evaluate(statements[ip].expr.value, EnvBefore).val
          /\ SameBut(environment, evaluate(statements[ip].expr.value, EnvBefore).env,
                     statements[ip].expr.name.lexeme)
          /\ statements[ip].kind = "Print" =>
                output = Append(RunPrefix(statements, ip - 1).out,
                                literal_to_string(evaluate(statements[ip].expr.value,
                                                           EnvBefore).val))
    /\ AssignFailed =>
          ~evaluate(statements[ip + 1].expr.value, RunPrefix(statements, ip).env).ok

\* an assignment to a name that was not bound has been executed and printed
C18_Witness ==
    /\ AssignExecuted
    /\ statements[ip].kind = "Print"
    /\ statements[ip].expr.name.lexeme \notin DOMAIN EnvBefore
    /\ statements[ip].expr.name.lexeme \in DOMAIN environment
    /\ output # <<>>

\* a binary expression over two literals has been evaluated
BinaryEvaluated ==
    /\ mode = "evaluate"
    /\ phase = "evaluated"
    /\ parsed.val.kind = "Binary"

BothNumbers == parsed.val.left.value.t = "Number" /\ parsed.val.right.value.t = "Number"

BothStrings == parsed.val.left.value.t = "String" /\ parsed.val.right.value.t = "String"

\* a natural number below 2^30 as an integer
BigToNat(a) == Limb(a, 1) + Base * Limb(a, 2)

\* the drawn numbers are naturals: their integer values
LeftInt == BigToNat(BigShl(parsed.val.left.value.num.m, parsed.val.left.value.num.e))

RightInt == BigToNat(BigShl(parsed.val.right.value.num.m, parsed.val.right.value.num.e))

\* C19. Operand typing of the arithmetic and ordering operators: - * / < <= >
\* >= yield a value only when both operands are Numbers and a runtime error
\* for every other pair of operands; + yields a value only for Number + Number
\* (the sum) and String + String (the concatenation, left then right) and a
\* runtime error for every other pair, Number + String and String + Number
\* included.
C19_OperandTyping ==
    BinaryEvaluated =>
        /\ parsed.val.operator.typ \in {"Minus", "Star", "Slash"} =>
              IF BothNumbers
              THEN /\ result.status = "value"
                   /\ result.val.t = "Number"
                   /\ parsed.val.operator.typ = "Minus"
                         => result.val = Number(FromInt(LeftInt - RightInt))
                   /\ parsed.val.operator.typ = "Star"
                         => result.val = Number(FromInt(LeftInt * RightInt))
              ELSE result.status = "error"
        /\ parsed.val.operator.typ \in {"Less", "LessEqual", "Greater", "GreaterEqual"} =>
              IF BothNumbers
              THEN /\ result.status = "value"
                   /\ result.val = Boolean(CASE parsed.val.operator.typ = "Less" -> LeftInt < RightInt
                                             [] parsed.val.operator.typ = "LessEqual" -> LeftInt <= RightInt
                                             [] parsed.val.operator.typ = "Greater" -> LeftInt > RightInt
                                             [] OTHER -> LeftInt >= RightInt)
              ELSE result.status = "error"
        /\ parsed.val.operator.typ = "Plus" =>
              IF BothNumbers
              THEN result.status = "value" /\ result.val = Number(FromInt(LeftInt + RightInt))
              ELSE IF BothStrings
              THEN /\ result.status = "value"
                   /\ result.val = String(parsed.val.left.value.str \o parsed.val.right.value.str)
              ELSE result.status = "error"

\* a Number + a String has been evaluated, to a runtime error
C19_Witness ==
    /\ BinaryEvaluated
    /\ parsed.val.operator.typ = "Plus"
    /\ parsed.val.left.value.t = "Number"
    /\ parsed.val.right.value.t = "String"
    /\ result.status = "error"

\* the token type the specification's table gives a punctuation character
PunctuationType(c) ==
    CASE c = "(" -> "LeftParen"
      [] c = ")" -> "RightParen"
      [] c = "{" -> "LeftBrace"
      [] c = "}" -> "RightBrace"
      [] c = "," -> "Comma"
      [] c = "." -> "Dot"
      [] c = "-" -> "Minus"
      [] c = "+" -> "Plus"
      [] c = ";" -> "SemiColon"
      [] OTHER -> "Star"

\* the scan of a source of punctuation characters only has returned
PunctuationScanned ==
    /\ mode = "run_file"
    /\ phase = "scanned"
    /\ \A i \in 1..Len(scanner.source) : scanner.source[i] \in PunctuationChars

\* C20. Punctuation count: for every input made only of single-character
\* punctuation characters the scan reports no error and returns as many tokens
\* as the input is long plus one, the end-of-input token, token i being the
\* token of character i.
C20_PunctuationCount ==
    PunctuationScanned =>
        /\ ~scanner.has_error
        /\ Len(tokens) = Len(scanner.source) + 1
        /\ \A i \in 1..Len(scanner.source) :
              tokens[i].typ = PunctuationType(scanner.source[i])
        /\ tokens[Len(tokens)].typ = "Eof"

\* a source of MaxLen punctuation characters, not all the same, has been scanned
C20_Witness ==
    /\ PunctuationScanned
    /\ Len(scanner.source) = MaxLen
    /\ scanner.source[1] # scanner.source[MaxLen]
    /\ Len(tokens) = MaxLen + 1

\* a text that is one identifier lexeme: a letter or underscore, then letters,
\* digits and underscores
IsWord(text) ==
    /\ text # <<>>
    /\ is_alpha(Some(text[1]))
    /\ \A i \in 1..Len(text) : is_alpha_numeric(Some(text[i]))

\* the token type the reserved-word table gives an identifier lexeme
ReservedType(text) ==
    IF text = SrcTrue THEN "True"
    ELSE IF text = SrcFalse THEN "False"
    ELSE IF text = SrcNil THEN "Nil"
    ELSE "Identifier"

\* C21. Reserved words: an identifier lexeme that is exactly true, false or nil
\* is emitted as the keyword token True, False or Nil, and every other
\* identifier lexeme, nilx included, is emitted as the generic Identifier token.
C21_ReservedWordsClaim ==
    (mode = "run_file" /\ phase = "scanned" /\ IsWord(scanner.source)) =>
        /\ Len(tokens) = 2
        /\ tokens[1].typ = ReservedType(scanner.source)

\* a text of operator characters and the digit 1
IsOperatorText(text) == \A i \in 1..Len(text) : text[i] \in OperatorChars \cup {"1"}

\* the token of an operator character followed by =, and of one that is not
LongType(c) ==
    CASE c = "!" -> "BangEqual" [] c = "=" -> "EqualEqual"
      [] c = "<" -> "LessEqual" [] c = ">" -> "GreaterEqual"

ShortType(c) ==
    CASE c = "!" -> "Bang" [] c = "=" -> "Equal"
      [] c = "<" -> "Less" [] c = ">" -> "Greater"

RECURSIVE OperatorTypes(_, _)
\* the token types of an operator text read from character i on: an operator
\* takes the next character only when it is =, a run of digits is one Number
OperatorTypes(text, i) ==
    IF i > Len(text) THEN <<>>
    ELSE IF text[i] \in OperatorChars
    THEN IF i < Len(text) /\ text[i + 1] = "="
         THEN <<LongType(text[i])>> \o OperatorTypes(text, i + 2)
         ELSE <<ShortType(text[i])>> \o OperatorTypes(text, i + 1)
    ELSE IF i < Len(text) /\ text[i + 1] \notin OperatorChars
    THEN OperatorTypes(text, i + 1)
    ELSE <<"Number">> \o OperatorTypes(text, i + 1)

TypesOf(toks) == [i \in 1..Len(toks) |-> toks[i].typ]

\* C22. Two-character operators: !, =, < or > immediately followed by = gives
\* one two-character token and consumes both characters; otherwise the
\* one-character token is emitted and the following character starts the next
\* lexeme, so no character is skipped: after every scan step the tokens emitted
\* are exactly those of the characters consumed so far.
C22_TwoCharOperators ==
    (mode = "run_file" /\ IsOperatorText(scanner.source)) =>
        /\ phase # "scan_panic"
        /\ ~scanner.has_error
        /\ phase = "scan" =>
               TypesOf(scanner.tokens) =
                   OperatorTypes(SubSeq(scanner.source, 1, scanner.current), 1)
        /\ phase = "scanned" =>
               TypesOf(tokens) = OperatorTypes(scanner.source, 1) \o <<"Eof">>

\* a one-character operator followed by a two-character one
C22_Witness ==
    /\ mode = "run_file"
    /\ phase = "scanned"
    /\ IsOperatorText(scanner.source)
    /\ \E i \in 1..(Len(tokens) - 2) :
           /\ tokens[i].typ \in {"Bang", "Equal", "Less", "Greater"}
           /\ tokens[i + 1].typ \in {"BangEqual", "EqualEqual", "LessEqual", "GreaterEqual"}

\* a text of digits and dots
IsNumberText(text) == \A i \in 1..Len(text) : text[i] \in NumberChars

RECURSIVE RunEnd(_, _)
\* the index of the last digit of the run of digits that starts at i
RunEnd(text, i) ==
    IF i < Len(text) /\ is_ascii_digit(text[i + 1]) THEN RunEnd(text, i + 1) ELSE i

RECURSIVE RunValue(_, _, _)
\* the natural number written by the digits i..j
RunValue(text, i, j) ==
    IF j < i THEN 0 ELSE RunValue(text, i, j - 1) * 10 + DigitValue(text[j])

RECURSIVE NumberPayloads(_, _)
\* type and literal of the tokens of a text of digits and dots read from i on:
\* a run of digits takes a dot and the digits after it only when a digit
\* follows the dot; any other dot is a Dot token
NumberPayloads(text, i) ==
    IF i > Len(text) THEN <<>>
    ELSE IF text[i] = "." THEN << <<"Dot", NoLiteral>> >> \o NumberPayloads(text, i + 1)
    ELSE LET j == RunEnd(text, i)
             fraction == j + 2 <= Len(text) /\ text[j + 1] = "."
                             /\ is_ascii_digit(text[j + 2])
             k == IF fraction THEN RunEnd(text, j + 2) ELSE j
             scale == IF fraction THEN Pow10(k - j - 1) ELSE 1
             part == IF fraction THEN RunValue(text, j + 2, k) ELSE 0
             value == F64(RunValue(text, i, j) * scale + part, scale, FALSE)
         IN  << <<"Number", Number(value)>> >> \o NumberPayloads(text, k + 1)

\* C23. Number lexemes: a run of digits followed by a dot and at least one
\* digit is one Number token covering the integer and fractional digits; a dot
\* that is not followed by a digit is not part of the number, so 1. scans to
\* Number(1) then Dot and 1.5 scans to the single token Number(1.5).
C23_NumberLexemes ==
    (mode = "run_file" /\ IsNumberText(scanner.source)) =>
        /\ phase # "scan_panic"
        /\ ~scanner.has_error
        /\ phase = "scanned" =>
               /\ Payloads(tokens) =
                      NumberPayloads(scanner.source, 1) \o << <<"Eof", NoLiteral>> >>
               /\ scanner.source = <<"1", ".">> =>
                      Payloads(tokens) = << <<"Number", Number(FromInt(1))>>,
                                            <<"Dot", NoLiteral>>, <<"Eof", NoLiteral>> >>
               /\ scanner.source = <<"1", ".", "5">> =>
                      Payloads(tokens) = << <<"Number", Number(F64(3, 2, FALSE))>>,
                                            <<"Eof", NoLiteral>> >>

\* the scan of 1.5. has finished: one Number of both runs of digits, then a Dot
C23_Witness ==
    /\ mode = "run_file"
    /\ phase = "scanned"
    /\ scanner.source = SrcNumberThenDot
    /\ TypesOf(tokens) = <<"Number", "Dot", "Eof">>
    /\ tokens[1].literal = Number(F64(3, 2, FALSE))

\* the index (as Parser.current counts, from 0) of the first Eof token
FirstEof(toks) ==
    CHOOSE i \in 0..(Len(toks) - 1) :
        /\ toks[i + 1].typ = "Eof"
        /\ \A j \in 0..(i - 1) : toks[j + 1].typ # "Eof"

\* a rule called with the cursor at c leaves it between c and the first Eof,
\* and past c (so previous() reads a token) when it returns Ok
RuleKeepsCursor(r, c, toks) ==
    /\ c <= r.cur
    /\ r.cur <= FirstEof(toks)
    /\ r.ok => r.cur >= c + 1

CursorInBounds ==
    /\ 0 <= parsed.cur
    /\ parsed.cur <= FirstEof(tokens)
    /\ \A c \in 0..FirstEof(tokens) :
           /\ RuleKeepsCursor(expression(tokens, c), c, tokens)
           /\ RuleKeepsCursor(declaration(tokens, c), c, tokens)
    /\ phase \in {"parse_done", "parse_failed", "literal_panic"} =>
           /\ parsed.ok = parse(tokens).ok
           /\ parsed.panicked = parse(tokens).panicked
           /\ parsed.cur = parse(tokens).cur
           /\ parsed.val = parse(tokens).val
           /\ parsed.ok = (phase = "parse_done")

\* an iteration of the statement loop moves the cursor forward or fails
LoopProgress ==
    (phase = "parsing" /\ phase' # "parse_done") =>
        parsed'.cur > parsed.cur \/ phase' = "parse_failed"

\* C24. Parser cursor invariant: for every token sequence that ends with Eof,
\* during parse 0 <= current <= index of the first Eof, the cursor never
\* moves past that token, previous() is only called when current >= 1, every
\* iteration of the statement loop advances the cursor or returns an error,
\* and parse terminates: each iteration moves the bounded cursor forward, so
\* the loop runs at most as many times as there are tokens before the first Eof.
C24_ParserCursor ==
    /\ [](mode = "parse" => CursorInBounds)
    /\ [](mode = "parse" /\ parsed.ok => Len(parsed.val) <= parsed.cur)
    /\ [][LoopProgress]_vars

\* parse returned statements with the cursor on the first Eof although more
\* tokens follow it
C24_Witness ==
    /\ mode = "parse"
    /\ phase = "parse_done"
    /\ Len(statements) >= 1
    /\ parsed.cur = FirstEof(tokens)
    /\ FirstEof(tokens) + 1 < Len(tokens)

\* the interpreter has failed on a variable declaration (statement ip + 1)
DeclarationFailed ==
    /\ mode = "interpret"
    /\ phase = "runtime_error"
    /\ statements[ip + 1].kind = "Variable"

\* the environment the failed declaration was executed in
EnvBeforeFailure == RunPrefix(statements, ip).env

\* the name n has the binding it had before the failed declaration, or none
Untouched(n) ==
    /\ n \in DOMAIN environment <=> n \in DOMAIN EnvBeforeFailure
    /\ n \in DOMAIN EnvBeforeFailure => environment[n] = EnvBeforeFailure[n]

RECURSIVE AssignedNames(_)
\* the names an expression holds an assignment to
AssignedNames(e) ==
    CASE e.kind = "Assign" -> {e.name.lexeme} \cup AssignedNames(e.value)
      [] e.kind = "Binary" -> AssignedNames(e.left) \cup AssignedNames(e.right)
      [] e.kind = "Unary" -> AssignedNames(e.right)
      [] e.kind = "Grouping" -> AssignedNames(e.expr)
      [] OTHER -> {}

\* the environment is the one the failed evaluation of the initializer left,
\* and only names the initializer assigns may have changed
OnlyInitializerAssignments ==
    /\ environment = evaluate(statements[ip + 1].initializer, EnvBeforeFailure).env
    /\ \A m \in ((DOMAIN environment) \cup (DOMAIN EnvBeforeFailure))
                    \ AssignedNames(statements[ip + 1].initializer) : Untouched(m)

\* C25 as the specification states it.  Failed declaration leaves the binding
\* untouched: when the initializer of a declaration of name n yields a runtime
\* error, n is not bound by that statement: if n was unbound it stays unbound,
\* and if it was bound it keeps its previous value; the only environment
\* changes are those made by assignments inside the initializer that completed
\* before the error.
C25_FailedDeclarationClaim ==
    DeclarationFailed =>
        /\ Untouched(statements[ip + 1].name.lexeme)
        /\ OnlyInitializerAssignments

\* C25, amended.  When the initializer of a declaration of name n yields a
\* runtime error, the declaration itself binds nothing: the environment is the
\* one the evaluation of the initializer left at the error, so n stays unbound
\* or keeps its previous value unless the initializer itself holds an
\* assignment to n, and the only changes are those of the assignments inside
\* the initializer that completed before the error.
C25_FailedDeclaration ==
    DeclarationFailed =>
        /\ statements[ip + 1].name.lexeme \notin AssignedNames(statements[ip + 1].initializer)
               => Untouched(statements[ip + 1].name.lexeme)
        /\ OnlyInitializerAssignments

\* a declaration of a bound name failed after an assignment inside its
\* initializer had bound another name: the name keeps its value
C25_Witness ==
    /\ DeclarationFailed
    /\ statements[ip + 1].name.lexeme \in DOMAIN EnvBeforeFailure
    /\ environment[statements[ip + 1].name.lexeme]
           = EnvBeforeFailure[statements[ip + 1].name.lexeme]
    /\ environment # EnvBeforeFailure

====
